---- MODULE Spec2Model ----
(***************************************************************************)
(* The dispatch simulation engine of the elevator simulation:              *)
(* SimulationEngine (the per-tick loop), Scheduler (scoring, assignment,   *)
(* re-targeting), ElevatorClass and RequestClass.                          *)
(*                                                                         *)
(* Every engine method is a function from an engine state (a record with   *)
(* one field per field of SimulationEngine) to an engine state, written    *)
(* statement by statement after the TypeScript; the actions apply these    *)
(* functions to the variables.                                             *)
(*                                                                         *)
(* Conventions.                                                            *)
(*  - `undefined` is modelled by Undefined (-1); floors and ids are >= 1.   *)
(*  - A request id (`req_<Date.now()>_<random>`, unique per request) is    *)
(*    modelled by the request's creation rank within the engine's life,    *)
(*    totalRequests + 1.                                                   *)
(*  - Request.isManual is written and never read; it is left out.          *)
(*  - Request priorities are real numbers (x^1.5); the model carries them  *)
(*    multiplied by PriorityScale and rounded down.  Elevator scores are   *)
(*    rationals; the model carries them multiplied by ScoreScale, exactly. *)
(*  - Scheduler.ts reads the wall clock (Date.now(), about 1.7e12) where   *)
(*    the engine reads currentTime; see schedulerBefore.                   *)
(***************************************************************************)
EXTENDS Integers, Sequences, FiniteSets, TLC

(***************************************************************************)
(* Bounds of the model.                                                    *)
(***************************************************************************)
MaxTime == 3          \* a tick is taken only while currentTime + speed <= MaxTime
MaxCommands == 2      \* commands and generated requests in one behaviour of Spec
MaxExtra == 1         \* the same, on top of a prepared load (SpecLoaded)
MaxBeyond == 2        \* passenger counts of a call run from -MaxBeyond to capacity + MaxBeyond
MaxTimers == 2        \* intervals alive at one time (SpecServer)
MaxAge == 12          \* creation times run to MaxAge, the clock to 2 * MaxAge (SpecPriority)

(***************************************************************************)
(* Program constants.                                                      *)
(***************************************************************************)
MaxCapacity == 15         \* createElevators: new ElevatorClass(i + 1, 15, ...)
MoveStep == 10            \* ElevatorClass.move: currentFloor +/- 10
TopFloor == 50            \* ElevatorClass.move: Math.min(newFloor, 50)
BottomFloor == 1          \* ElevatorClass.move: Math.max(newFloor, 1)
SchedulerFloors == 20     \* Scheduler.totalFloors
RebalanceThreshold == 3   \* emergencyRebalancing: loadDifference > 3
PositioningThreshold == 2 \* predictivePositioning: distance > 2
SortThreshold == 3        \* processRequests: pendingRequests.length > 3
LongWait == 45            \* addLongWaitingRequest: currentTime - 45
RushFrequency == 2        \* startMorningRush / startEveningRush
NormalFrequency == 1      \* endRushHour, requestFrequency initial value
InitialSpeed == 1         \* speed initial value
PriorityScale == 100      \* priorities are carried in hundredths
ScoreScale == 210000      \* scores are carried in 1/210000ths

Undefined == 0 - 1

Min(a, b) == IF a <= b THEN a ELSE b
Max(a, b) == IF a >= b THEN a ELSE b
Abs(a) == IF a >= 0 THEN a ELSE 0 - a

Indices(seq) == 1..Len(seq)

(* The array with the elements of f, each evaluated once. *)
Array(f) == SubSeq(f, 1, Len(f))

(* The element of a set of one element. *)
The(S) == CHOOSE x \in S : TRUE

(* Array.prototype.filter. *)
Filter(seq, Keep(_)) == SelectSeq(seq, Keep)

(* The indices of seq, ascending, whose element satisfies Keep. *)
SelectIdx(seq, Keep(_)) ==
    LET KeepAt(k) == Keep(seq[k])
    IN  SelectSeq([k \in Indices(seq) |-> k], KeepAt)

(* `for (k = lo; k <= hi; k++) s = Body(s, k)`: the loop is split in two    *)
(* halves, and the state between the halves is evaluated before the second  *)
(* half starts.                                                             *)
ForEach(s, lo, hi, Body(_, _)) ==
    LET RECURSIVE Loop(_, _, _)
        Loop(t, a, b) ==
            IF a > b THEN t
            ELSE IF a = b THEN Body(t, a)
            ELSE The({Loop(u, ((a + b) \div 2) + 1, b) :
                      u \in {Loop(t, a, (a + b) \div 2)}})
    IN  The({Loop(p[1], lo, p[2]) : p \in {<<s, hi>>}})

(* Array.prototype.findIndex, 1-based; 0 when nothing matches. *)
FindIndex(seq, Match(_)) ==
    LET ks == {k \in Indices(seq) : Match(seq[k])}
    IN  IF ks = {} THEN 0 ELSE CHOOSE k \in ks : \A j \in ks : k <= j

(***************************************************************************)
(* ElevatorClass                                                           *)
(***************************************************************************)
ElevatorClass(id, maxCapacity, startingFloor) ==
    [id |-> id, currentFloor |-> startingFloor, direction |-> "idle",
     passengerCount |-> 0, maxCapacity |-> maxCapacity, doorsOpen |-> FALSE,
     targetFloor |-> Undefined, isMoving |-> FALSE, assignedRequests |-> <<>>]

(* `this.targetFloor || dflt`: undefined and 0 are falsy. *)
TargetOr(e, dflt) ==
    IF e.targetFloor = Undefined \/ e.targetFloor = 0 THEN dflt ELSE e.targetFloor

move(e) ==
    LET moved ==
          IF e.direction = "up"
          THEN [e EXCEPT !.currentFloor =
                   Min(Min(e.currentFloor + MoveStep, TargetOr(e, TopFloor)), TopFloor)]
          ELSE IF e.direction = "down"
          THEN [e EXCEPT !.currentFloor =
                   Max(Max(e.currentFloor - MoveStep, TargetOr(e, BottomFloor)), BottomFloor)]
          ELSE e
    IN  [moved EXCEPT !.isMoving = TRUE]

(* stop() without this.isMoving = false. *)
stopMoving(e) ==
    [e EXCEPT !.direction = "idle", !.targetFloor = Undefined]

stop(e) ==
    [e EXCEPT !.direction = "idle", !.isMoving = FALSE, !.targetFloor = Undefined]

setTarget(e, targetFloor) ==
    [e EXCEPT !.targetFloor = targetFloor,
              !.direction = IF targetFloor > e.currentFloor THEN "up"
                            ELSE IF targetFloor < e.currentFloor THEN "down"
                            ELSE "idle"]

hasReachedTarget(e) ==
    e.targetFloor # Undefined /\ e.currentFloor = e.targetFloor

openDoors(e) == [e EXCEPT !.doorsOpen = TRUE]

(* closeDoors() leaving the doors as they are. *)
closeDoorsStuck(e) == e

closeDoors(e) == [e EXCEPT !.doorsOpen = FALSE]

(* addPassengers / removePassengers give the elevator after the call, and   *)
(* addPassengersResult / removePassengersResult the boolean the TypeScript  *)
(* methods return, which the engine ignores.                                *)
addPassengersResult(e, count) == e.passengerCount + count <= e.maxCapacity

removePassengersResult(e, count) == e.passengerCount >= count

addPassengers(e, count) ==
    IF e.passengerCount + count <= e.maxCapacity
    THEN [e EXCEPT !.passengerCount = @ + count]
    ELSE e

removePassengers(e, count) ==
    IF e.passengerCount >= count
    THEN [e EXCEPT !.passengerCount = @ - count]
    ELSE e

(* hasCapacity with the comparison off by one. *)
hasCapacityInclusive(e) == e.passengerCount <= e.maxCapacity

(* hasCapacity counting the requests assigned to the elevator, those still  *)
(* waiting for it included.                                                 *)
hasCapacityBooked(e) == Len(e.assignedRequests) < e.maxCapacity

hasCapacity(e) == e.passengerCount < e.maxCapacity

isIdle(e) ==
    e.direction = "idle" /\ ~e.isMoving /\ e.targetFloor = Undefined

getDistanceToFloor(e, floor) == Abs(e.currentFloor - floor)

(***************************************************************************)
(* RequestClass                                                            *)
(***************************************************************************)
RequestClass(id, fromFloor, toFloor, timestamp) ==
    [id |-> id, fromFloor |-> fromFloor, toFloor |-> toFloor,
     timestamp |-> timestamp, isAssigned |-> FALSE,
     assignedElevatorId |-> Undefined,
     isPickupComplete |-> FALSE, isDeliveryComplete |-> FALSE,
     pickupTime |-> Undefined, deliveryTime |-> Undefined]

(* getWaitTime with the operands exchanged. *)
getWaitTimeAhead(r, currentTime) == r.timestamp - currentTime

getWaitTime(r, currentTime) == currentTime - r.timestamp

isGoingUp(r) == r.toFloor > r.fromFloor

RECURSIVE SqrtBetween(_, _, _)
(* The largest k in lo..hi with k * k <= n, given lo * lo <= n. *)
SqrtBetween(n, lo, hi) ==
    IF lo >= hi THEN lo
    ELSE LET mid == (lo + hi + 1) \div 2
         IN  IF mid * mid <= n THEN SqrtBetween(n, mid, hi)
             ELSE SqrtBetween(n, lo, mid - 1)

(* Math.pow(x, 1.5) in units of 1/PriorityScale, rounded down:             *)
(* floor(sqrt(PriorityScale^2 * x^3)), for 0 <= x <= 59.                   *)
Pow15(x) == SqrtBetween(PriorityScale * PriorityScale * x * x * x, 0, 46340)

(* The waits the engine's clock can produce: a request is at most LongWait *)
(* older than the clock, which stops at MaxTime.                           *)
Pow15Table == [x \in 0..(MaxTime + LongWait) |-> Pow15(x)]

(* getPriority, in units of 1/PriorityScale. *)
getPriority(r, currentTime) ==
    LET waitTime == getWaitTime(r, currentTime)
        base == 1 * PriorityScale
        escalated == IF waitTime > 3 THEN base + Pow15Table[waitTime - 3] ELSE base
        emergency == IF waitTime > 10 THEN escalated + 400 * PriorityScale ELSE escalated
        super == IF waitTime > 20 THEN emergency + 1000 * PriorityScale ELSE emergency
    IN  IF isGoingUp(r) THEN super + 50 * PriorityScale ELSE super + 30 * PriorityScale

(***************************************************************************)
(* Scheduler.  `s` is the engine state; the scheduler holds the engine's   *)
(* elevators array and, once setPendingRequests has been called            *)
(* (s.schedulerLinked), the engine's pendingRequests array; until then its *)
(* own pendingRequests is the empty array it was constructed with.         *)
(***************************************************************************)
schedulerPending(s) == IF s.schedulerLinked THEN s.pendingRequests ELSE <<>>

(* Scheduler.getAssignedRequests *)
schedulerAssigned(s, e) ==
    LET Mine(r) == r.isAssigned /\ r.assignedElevatorId = e.id
    IN  Filter(schedulerPending(s), Mine)

(* calculateRouteLength: the floors sorted, consecutive differences summed. *)
calculateRouteLength(floors) ==
    IF Cardinality(floors) <= 1 THEN 0
    ELSE LET hi == CHOOSE f \in floors : \A g \in floors : g <= f
             lo == CHOOSE f \in floors : \A g \in floors : f <= g
         IN  hi - lo

(* calculateRouteEfficiency, a rational in [0, 1], times 1400               *)
(* (1400 = lcm of the denominators 20, 20 and 70).                          *)
calculateRouteEfficiency(s, e, request) ==
    LET assigned == schedulerAssigned(s, e)
        floorsToVisit ==
            {e.currentFloor}
            \cup (IF e.targetFloor # Undefined THEN {e.targetFloor} ELSE {})
            \cup {assigned[k].fromFloor :
                    k \in {j \in Indices(assigned) : ~assigned[j].isPickupComplete}}
            \cup {assigned[k].toFloor :
                    k \in {j \in Indices(assigned) : ~assigned[j].isDeliveryComplete}}
        fromFloorInPath == request.fromFloor \in floorsToVisit
        toFloorInPath == request.toFloor \in floorsToVisit
        routeIncrease ==
            calculateRouteLength(floorsToVisit \cup {request.fromFloor, request.toFloor})
            - calculateRouteLength(floorsToVisit)
    IN  IF Len(assigned) = 0
        THEN Max(0, SchedulerFloors - getDistanceToFloor(e, request.fromFloor)) * 70
        ELSE IF fromFloorInPath /\ toFloorInPath THEN 1400
        ELSE IF fromFloorInPath \/ toFloorInPath THEN 1330
        ELSE Max(0, 70 - routeIncrease) * 20

(* calculateDirectionMatch, times 10. *)
calculateDirectionMatch(e, request) ==
    IF e.direction = "idle" THEN 8
    ELSE IF e.direction = (IF request.toFloor > request.fromFloor THEN "up" ELSE "down")
    THEN 10
    ELSE 5

(* The score without its distance and route terms: load and direction      *)
(* only.                                                                    *)
calculateHybridAggressiveScoreLoadOnly(s, e, request) ==
    LET load == e.maxCapacity * Len(e.assignedRequests) + e.passengerCount
        unit == ScoreScale \div (14000 * e.maxCapacity)
        loadPart == Max(0, 100 * e.maxCapacity - 25 * load) * 2800 * unit
        directionPart == calculateDirectionMatch(e, request) * 3 * (ScoreScale \div 2)
    IN  loadPart + directionPart

(* calculateHybridAggressiveScore: totalScore times ScoreScale, less the     *)
(* priority and user-experience terms.  Those two terms depend on the       *)
(* request and the wall clock only (priorityScore is Math.min(100, ...) of  *)
(* a priority above 1e18), so they add the same amount to every elevator's  *)
(* score of one request and never change which score is the largest.        *)
(*   distanceScore * 0.35 = 35 * A * B / (10000 * maxCapacity)               *)
(*        A = 1000 - 6 * distance, B = 10 * maxCapacity - load,              *)
(*        load = maxCapacity * assignedRequests.length + passengerCount      *)
(*   loadScore * 0.2      = (100 * maxCapacity - 25 * load) / (5 * maxCapacity) *)
(*   routeScore * 0.25    = 25 * efficiency1400 / 1400                       *)
(*   directionScore* 0.15 = 15 * match10 / 10                                *)
calculateHybridAggressiveScore(s, e, request) ==
    LET distance == getDistanceToFloor(e, request.fromFloor)
        load == e.maxCapacity * Len(e.assignedRequests) + e.passengerCount
        A == Max(0, 1000 - 6 * distance)
        B == 10 * e.maxCapacity - load
        unit == ScoreScale \div (14000 * e.maxCapacity)
        distancePart == Max(0, A * B) * 49 * unit
        loadPart == Max(0, 100 * e.maxCapacity - 25 * load) * 2800 * unit
        routePart == calculateRouteEfficiency(s, e, request) * (ScoreScale \div 56)
        directionPart == calculateDirectionMatch(e, request) * 3 * (ScoreScale \div 2)
    IN  distancePart + loadPart + routePart + directionPart

(* Array.prototype.sort (stable) for a comparator that is a strict weak     *)
(* order; Before(j, k) is cmp(seq[j], seq[k]) < 0.  rank[k] is the place of  *)
(* seq[k] in the result.                                                    *)
StableSort(seq, Before(_, _)) ==
    The({Array([p \in Indices(seq) |-> seq[CHOOSE k \in Indices(seq) : rank[k] = p]]) :
         rank \in {Array([k \in Indices(seq) |->
                      Cardinality({j \in Indices(seq) :
                          Before(j, k) \/ (~Before(k, j) /\ j < k)}) + 1])}})

(* findBestElevator sorting the scores in ascending order. *)
findBestElevatorAscending(s, request) ==
    LET Available(i) == hasCapacity(s.elevators[i])
        availableElevators == SelectSeq([i \in Indices(s.elevators) |-> i], Available)
    IN  IF Len(s.elevators) = 0 \/ availableElevators = <<>> THEN 0
        ELSE The({LET Before(j, k) == score[j] - score[k] < 0
                  IN  availableElevators[StableSort([k \in Indices(score) |-> k], Before)[1]] :
                  score \in
                      {Array([k \in Indices(availableElevators) |->
                                 calculateHybridAggressiveScore(
                                     s, s.elevators[availableElevators[k]], request)])}})

(* findBestElevator: the index in the fleet of the chosen elevator, 0 for   *)
(* null.  availableElevators holds the indices of the elevators with        *)
(* capacity, in fleet order; elevatorScores is sorted with the comparator   *)
(* b.score - a.score and its first element is returned.                     *)
findBestElevator(s, request) ==
    LET Available(i) == hasCapacity(s.elevators[i])
        availableElevators == SelectSeq([i \in Indices(s.elevators) |-> i], Available)
    IN  IF Len(s.elevators) = 0 \/ availableElevators = <<>> THEN 0
        ELSE The({LET Before(j, k) == score[k] - score[j] < 0
                  IN  availableElevators[StableSort([k \in Indices(score) |-> k], Before)[1]] :
                  score \in
                      {Array([k \in Indices(availableElevators) |->
                                 calculateHybridAggressiveScore(
                                     s, s.elevators[availableElevators[k]], request)])}})

(* The index in seq of the first element of seq.sort(cmp), for a stable     *)
(* sort and a comparator that is a strict weak order: the first element     *)
(* that no element precedes.  Before(j, k) is cmp(seq[j], seq[k]) < 0.      *)
SortedFirst(seq, Before(_, _)) ==
    LET tops == {k \in Indices(seq) : \A j \in Indices(seq) : ~Before(j, k)}
    IN  CHOOSE k \in tops : \A j \in tops : k <= j

(* The comparator of Scheduler.updateElevatorTarget, cmp(a, b) < 0, given   *)
(* the route efficiencies of a and b.  It reads getPriority(Date.now()):    *)
(* with the wall clock in milliseconds since 1970 both waits are about      *)
(* 1.7e12, where one unit of wait moves (wait - 3)^1.5 by about 2e6, so two *)
(* priorities are "close" (differ by less than 25) exactly when the         *)
(* timestamps are equal (they then differ by the direction bonus, at most   *)
(* 20), and otherwise the older request has the higher priority.  Close     *)
(* priorities are ordered by route efficiency.                              *)
schedulerBefore(a, b, routeEfficiencyA, routeEfficiencyB) ==
    IF a.timestamp = b.timestamp
    THEN routeEfficiencyB - routeEfficiencyA < 0
    ELSE a.timestamp < b.timestamp

(* Scheduler.updateElevatorTarget, for the elevator at index i. *)
updateElevatorTarget(s, i) ==
    LET e == s.elevators[i]
        Aim(nextRequest) ==
            IF ~nextRequest.isPickupComplete
            THEN [s EXCEPT !.elevators[i] = setTarget(e, nextRequest.fromFloor)]
            ELSE [s EXCEPT !.elevators[i] = setTarget(e, nextRequest.toFloor)]
    IN  The({IF Len(assignedRequests) = 0 THEN s
             ELSE The({LET Before(j, k) ==
                               schedulerBefore(assignedRequests[j], assignedRequests[k],
                                               routeEfficiency[j], routeEfficiency[k])
                       IN  Aim(assignedRequests[SortedFirst(assignedRequests, Before)]) :
                       routeEfficiency \in
                           {Array([k \in Indices(assignedRequests) |->
                                      calculateRouteEfficiency(s, e, assignedRequests[k])])}}) :
             assignedRequests \in {schedulerAssigned(s, e)}})

(* What assignRequest writes to the request object. *)
markAssigned(request, elevatorId) ==
    [request EXCEPT !.isAssigned = TRUE, !.assignedElevatorId = elevatorId]

(* Scheduler.assignRequest(request, elevators[i]).  The request object may   *)
(* or may not be in the pending array yet: when it is, the array sees the   *)
(* write.                                                                   *)
assignRequest(s, request, i) ==
    LET Same(r) == r.id = request.id
        k == FindIndex(s.pendingRequests, Same)
    IN  The({updateElevatorTarget(t, i) :
             t \in {[s EXCEPT
                        !.pendingRequests =
                            IF k = 0 THEN @
                            ELSE [@ EXCEPT ![k] = markAssigned(request, s.elevators[i].id)],
                        !.elevators[i].assignedRequests = Append(@, request.id)]}})

(***************************************************************************)
(* SimulationEngine.  The engine state `s` has one field per field of the  *)
(* class that the dispatch loop reads or writes, schedulerLinked (see      *)
(* Scheduler above) and tickLog: what the latest operation wrote to the    *)
(* log about requests, as sets of request ids: "Reassigned request"        *)
(* (emergencyRebalancing), "No suitable elevator found" (processRequests), *)
(* "Pickup completed", "at capacity, cannot pickup" and "Delivery          *)
(* completed" (processPassengers); positioned holds the elevator ids of    *)
(* "Predictive positioning: Elevator ... moving to high-traffic floor".     *)
(***************************************************************************)
EmptyLog ==
    [reassigned |-> {}, unassignable |-> {}, pickups |-> {}, failedPickups |-> {},
     deliveries |-> {}, positioned |-> {}]

(* createElevators.  Math.floor(i * (totalFloors / totalElevators)) is the  *)
(* integer quotient whenever the floating-point product is exact, which it  *)
(* is for the fleets of one and two elevators used here.                    *)
createElevators(totalFloors, totalElevators) ==
    [i \in 1..totalElevators |->
        ElevatorClass(i, MaxCapacity, ((i - 1) * totalFloors) \div totalElevators + 1)]

(* The constructor, with the field initialisers of the class. *)
SimulationEngine(totalFloors, totalElevators) ==
    [isRunning |-> FALSE, currentTime |-> 0, speed |-> InitialSpeed,
     totalFloors |-> totalFloors, totalElevators |-> totalElevators,
     elevators |-> createElevators(totalFloors, totalElevators),
     pendingRequests |-> <<>>, requestFrequency |-> NormalFrequency,
     lastRequestTime |-> 0, totalRequests |-> 0, completedRequests |-> 0,
     completedRequestsWithTimes |-> <<>>,
     isRushHour |-> FALSE, rushHourType |-> "normal",
     schedulerLinked |-> FALSE, tickLog |-> EmptyLog]

start(s) == [s EXCEPT !.isRunning = TRUE, !.tickLog = EmptyLog]

stopSimulation(s) == [s EXCEPT !.isRunning = FALSE, !.tickLog = EmptyLog]

(* reset without the call of createElevators. *)
resetKeepingFleet(s) ==
    [s EXCEPT !.isRunning = FALSE, !.currentTime = 0, !.pendingRequests = <<>>,
              !.totalRequests = 0, !.completedRequests = 0,
              !.completedRequestsWithTimes = <<>>, !.lastRequestTime = 0,
              !.schedulerLinked = FALSE, !.tickLog = EmptyLog]

reset(s) ==
    [s EXCEPT !.isRunning = FALSE, !.currentTime = 0, !.pendingRequests = <<>>,
              !.totalRequests = 0, !.completedRequests = 0,
              !.completedRequestsWithTimes = <<>>, !.lastRequestTime = 0,
              !.elevators = createElevators(s.totalFloors, s.totalElevators),
              !.schedulerLinked = FALSE, !.tickLog = EmptyLog]

setSpeed(s, speed) == [s EXCEPT !.speed = speed, !.tickLog = EmptyLog]

setRequestFrequency(s, frequency) ==
    [s EXCEPT !.requestFrequency = frequency, !.tickLog = EmptyLog]

startMorningRush(s) ==
    [s EXCEPT !.isRushHour = TRUE, !.rushHourType = "morning",
              !.requestFrequency = RushFrequency, !.tickLog = EmptyLog]

startEveningRush(s) ==
    [s EXCEPT !.isRushHour = TRUE, !.rushHourType = "evening",
              !.requestFrequency = RushFrequency, !.tickLog = EmptyLog]

endRushHour(s) ==
    [s EXCEPT !.isRushHour = FALSE, !.rushHourType = "normal",
              !.requestFrequency = NormalFrequency, !.tickLog = EmptyLog]

(* The id of the next request to be constructed. *)
nextId(s) == s.totalRequests + 1

(* The values of Math.floor(Math.random() * n), Math.random() being in      *)
(* [0, 1).                                                                  *)
Drawn(n) == IF n > 0 THEN 0..(n - 1) ELSE n..0

(* The <<fromFloor, toFloor>> pairs generateRandomRequest can draw.  Every   *)
(* branch but the lobby's draws both floors as Drawn(totalFloors) + 1 and    *)
(* redraws one of them until it differs from the other: a pair of equal      *)
(* floors is no outcome, and the loop has none when one floor can be drawn.  *)
DistinctPairs(s) ==
    {p \in {k + 1 : k \in Drawn(s.totalFloors)} \X {k + 1 : k \in Drawn(s.totalFloors)} :
        p[1] # p[2]}

(* generateRushHourRequest drawing the lobby request's other floor from all *)
(* the floors (+ 1 in place of + 2).                                        *)
generateRushHourRequestAnyFloor(s) ==
    IF s.rushHourType = "morning"
    THEN {<<1, k + 1>> : k \in Drawn(s.totalFloors)} \cup DistinctPairs(s)
    ELSE IF s.rushHourType = "evening"
    THEN {<<k + 1, 1>> : k \in Drawn(s.totalFloors)} \cup DistinctPairs(s)
    ELSE DistinctPairs(s)

generateRushHourRequest(s) ==
    IF s.rushHourType = "morning"
    THEN {<<1, k + 2>> : k \in Drawn(s.totalFloors - 1)} \cup DistinctPairs(s)
    ELSE IF s.rushHourType = "evening"
    THEN {<<k + 2, 1>> : k \in Drawn(s.totalFloors - 1)} \cup DistinctPairs(s)
    ELSE DistinctPairs(s)

generateRandomRequest(s) ==
    IF s.isRushHour THEN generateRushHourRequest(s) ELSE DistinctPairs(s)

(* currentTime - lastRequestTime >= 1 / requestFrequency, with 1 / 0 being  *)
(* Infinity.                                                                *)
requestDue(s) ==
    LET elapsed == s.currentTime - s.lastRequestTime
    IN  IF s.requestFrequency = 0 THEN FALSE
        ELSE IF s.requestFrequency > 0 THEN elapsed * s.requestFrequency >= 1
        ELSE elapsed * s.requestFrequency <= 1

(* generateRequests without the totalRequests++ statement. *)
generateRequestsUncounted(s, pair) ==
    IF requestDue(s)
    THEN [s EXCEPT !.pendingRequests =
                       Append(@, RequestClass(nextId(s), pair[1], pair[2], s.currentTime)),
                   !.lastRequestTime = s.currentTime]
    ELSE s

(* generateRequests; pair is the draw of generateRandomRequest. *)
generateRequests(s, pair) ==
    IF requestDue(s)
    THEN [s EXCEPT !.pendingRequests =
                       Append(@, RequestClass(nextId(s), pair[1], pair[2], s.currentTime)),
                   !.totalRequests = @ + 1,
                   !.lastRequestTime = s.currentTime]
    ELSE s

(* The loop body of emergencyRebalancing without the isPickupComplete test. *)
reassignRiding(s, over, under, requestId) ==
    LET Same(r) == r.id = requestId
        Other(id) == id # requestId
        k == FindIndex(s.pendingRequests, Same)
    IN  IF k # 0
        THEN [s EXCEPT
                !.pendingRequests[k].assignedElevatorId = s.elevators[under].id,
                !.elevators =
                    [[@ EXCEPT ![over].assignedRequests = Filter(@, Other)]
                        EXCEPT ![under].assignedRequests = Append(@, requestId)],
                !.tickLog.reassigned = @ \cup {requestId}]
        ELSE s

(* The loop body of emergencyRebalancing without the filter that takes the  *)
(* id off the overloaded elevator.                                          *)
reassignCopying(s, over, under, requestId) ==
    LET Same(r) == r.id = requestId
        k == FindIndex(s.pendingRequests, Same)
    IN  IF k # 0 /\ ~s.pendingRequests[k].isPickupComplete
        THEN [s EXCEPT
                !.pendingRequests[k].assignedElevatorId = s.elevators[under].id,
                !.elevators[under].assignedRequests = Append(@, requestId),
                !.tickLog.reassigned = @ \cup {requestId}]
        ELSE s

(* The loop body of emergencyRebalancing without the push on the           *)
(* underloaded elevator's list.                                             *)
reassignDropping(s, over, under, requestId) ==
    LET Same(r) == r.id = requestId
        Other(id) == id # requestId
        k == FindIndex(s.pendingRequests, Same)
    IN  IF k # 0 /\ ~s.pendingRequests[k].isPickupComplete
        THEN [s EXCEPT
                !.pendingRequests[k].assignedElevatorId = s.elevators[under].id,
                !.elevators[over].assignedRequests = Filter(@, Other),
                !.tickLog.reassigned = @ \cup {requestId}]
        ELSE s

(* The body of emergencyRebalancing's for loop, for one request id. *)
reassign(s, over, under, requestId) ==
    LET Same(r) == r.id = requestId
        Other(id) == id # requestId
        k == FindIndex(s.pendingRequests, Same)
    IN  IF k # 0 /\ ~s.pendingRequests[k].isPickupComplete
        THEN [s EXCEPT
                !.pendingRequests[k].assignedElevatorId = s.elevators[under].id,
                !.elevators =
                    [[@ EXCEPT ![over].assignedRequests = Filter(@, Other)]
                        EXCEPT ![under].assignedRequests = Append(@, requestId)],
                !.tickLog.reassigned = @ \cup {requestId}]
        ELSE s

(* emergencyRebalancing acting at a load difference of the threshold. *)
emergencyRebalancingEager(s) ==
    LET loads == [i \in Indices(s.elevators) |-> Len(s.elevators[i].assignedRequests)]
        maxLoad == CHOOSE m \in {loads[i] : i \in Indices(loads)} :
                       \A i \in Indices(loads) : loads[i] <= m
        minLoad == CHOOSE m \in {loads[i] : i \in Indices(loads)} :
                       \A i \in Indices(loads) : loads[i] >= m
        loadDifference == maxLoad - minLoad
        IsMax(e) == Len(e.assignedRequests) = maxLoad
        IsMin(e) == Len(e.assignedRequests) = minLoad
        over == FindIndex(s.elevators, IsMax)
        under == FindIndex(s.elevators, IsMin)
        requestsToMove == (2 * loadDifference) \div 3
        requests == SubSeq(s.elevators[over].assignedRequests, 1,
                           Min(requestsToMove, maxLoad))
    IN  IF Len(s.elevators) = 0 THEN s
        ELSE IF loadDifference >= RebalanceThreshold
        THEN The({LET Move(t, k) == reassign(t, plan[1], plan[2], plan[3][k])
                  IN  ForEach(s, 1, Len(plan[3]), Move) :
                  plan \in {<<over, under, requests>>}})
        ELSE s

emergencyRebalancing(s) ==
    LET loads == [i \in Indices(s.elevators) |-> Len(s.elevators[i].assignedRequests)]
        maxLoad == CHOOSE m \in {loads[i] : i \in Indices(loads)} :
                       \A i \in Indices(loads) : loads[i] <= m
        minLoad == CHOOSE m \in {loads[i] : i \in Indices(loads)} :
                       \A i \in Indices(loads) : loads[i] >= m
        loadDifference == maxLoad - minLoad
        IsMax(e) == Len(e.assignedRequests) = maxLoad
        IsMin(e) == Len(e.assignedRequests) = minLoad
        over == FindIndex(s.elevators, IsMax)
        under == FindIndex(s.elevators, IsMin)
        requestsToMove == (2 * loadDifference) \div 3
        requests == SubSeq(s.elevators[over].assignedRequests, 1,
                           Min(requestsToMove, maxLoad))
    IN  IF Len(s.elevators) = 0 THEN s
        ELSE IF loadDifference > RebalanceThreshold
        THEN The({LET Move(t, k) == reassign(t, plan[1], plan[2], plan[3][k])
                  IN  ForEach(s, 1, Len(plan[3]), Move) :
                  plan \in {<<over, under, requests>>}})
        ELSE s

(* getHighTrafficFloor; Undefined for null.  floorCounts is a Map: its     *)
(* entries are visited in the order the floors were first set, and a floor  *)
(* replaces the maximum only with a strictly greater count.                 *)
getHighTrafficFloor(s) ==
    LET Waiting(r) == ~r.isAssigned
        unassigned == Array(Filter(s.pendingRequests, Waiting))
        touches == [j \in 1..(2 * Len(unassigned)) |->
                       IF j % 2 = 1 THEN unassigned[(j + 1) \div 2].fromFloor
                       ELSE unassigned[j \div 2].toFloor]
        floors == {touches[j] : j \in Indices(touches)}
        count(f) == 3 * Cardinality({k \in Indices(unassigned) : unassigned[k].fromFloor = f})
                    + Cardinality({k \in Indices(unassigned) : unassigned[k].toFloor = f})
        firstSet(f) == CHOOSE j \in Indices(touches) :
                           touches[j] = f /\ \A i \in 1..(j - 1) : touches[i] # f
        top == {f \in floors : \A g \in floors : count(g) <= count(f)}
    IN  IF floors = {} THEN Undefined
        ELSE CHOOSE f \in top : \A g \in top : firstSet(f) <= firstSet(g)

(* predictivePositioning without the test on assignedRequests.length. *)
predictivePositioningBusy(s) ==
    LET repositions(e, highTrafficFloor) ==
            /\ isIdle(e) /\ e.passengerCount = 0
            /\ highTrafficFloor # Undefined /\ highTrafficFloor # 0
            /\ Abs(e.currentFloor - highTrafficFloor) > PositioningThreshold
    IN  The({[s EXCEPT !.elevators =
                 Array([i \in Indices(s.elevators) |->
                           IF repositions(s.elevators[i], highTrafficFloor)
                           THEN setTarget(s.elevators[i], highTrafficFloor)
                           ELSE s.elevators[i]]),
                       !.tickLog.positioned =
                           {s.elevators[i].id : i \in
                               {j \in Indices(s.elevators) :
                                   repositions(s.elevators[j], highTrafficFloor)}}] :
             highTrafficFloor \in {getHighTrafficFloor(s)}})

predictivePositioning(s) ==
    LET repositions(e, highTrafficFloor) ==
            /\ isIdle(e) /\ e.passengerCount = 0 /\ Len(e.assignedRequests) = 0
            /\ highTrafficFloor # Undefined /\ highTrafficFloor # 0
            /\ Abs(e.currentFloor - highTrafficFloor) > PositioningThreshold
    IN  The({[s EXCEPT !.elevators =
                 Array([i \in Indices(s.elevators) |->
                           IF repositions(s.elevators[i], highTrafficFloor)
                           THEN setTarget(s.elevators[i], highTrafficFloor)
                           ELSE s.elevators[i]]),
                       !.tickLog.positioned =
                           {s.elevators[i].id : i \in
                               {j \in Indices(s.elevators) :
                                   repositions(s.elevators[j], highTrafficFloor)}}] :
             highTrafficFloor \in {getHighTrafficFloor(s)}})

(* sortRequestsByPriority keeping the head of the sorted array only (a      *)
(* slice after the sort).                                                   *)
sortRequestsByPriorityHead(s) ==
    The({LET Before(j, k) == priority[k] - priority[j] < 0
         IN  [s EXCEPT !.pendingRequests =
                           SubSeq(StableSort(@, Before), 1, Len(@) - 1)] :
         priority \in {Array([k \in Indices(s.pendingRequests) |->
                          getPriority(s.pendingRequests[k], s.currentTime)])}})

sortRequestsByPriority(s) ==
    The({LET Before(j, k) == priority[k] - priority[j] < 0
         IN  [s EXCEPT !.pendingRequests = StableSort(@, Before)] :
         priority \in {Array([k \in Indices(s.pendingRequests) |->
                          getPriority(s.pendingRequests[k], s.currentTime)])}})

(* The body of processRequests' for loop, for the request at index i. *)
assign(s, i) ==
    LET request == s.pendingRequests[i]
        Named(e) == e.id = request.assignedElevatorId
        linked == [s EXCEPT !.schedulerLinked = TRUE]
    IN  IF request.isAssigned THEN s
        ELSE The({IF request.assignedElevatorId # Undefined /\ assignedElevator # 0
                  THEN assignRequest(s, request, assignedElevator)
                  ELSE The({IF bestElevator # 0
                            THEN assignRequest(linked, request, bestElevator)
                            ELSE [linked EXCEPT !.tickLog.unassignable =
                                                    @ \cup {request.id}] :
                            bestElevator \in {findBestElevator(linked, request)}}) :
                  assignedElevator \in {FindIndex(s.elevators, Named)}})

processRequests(s) ==
    The({ForEach(sorted, 1, Len(sorted.pendingRequests), assign) :
         sorted \in {IF Len(positioned.pendingRequests) > SortThreshold
                     THEN sortRequestsByPriority(positioned)
                     ELSE positioned :
                     positioned \in {predictivePositioning(rebalanced) :
                                     rebalanced \in {emergencyRebalancing(s)}}}})

(* The pickup statement with passengerCount++ in place of the guarded       *)
(* hasCapacity() / addPassengers(1).                                        *)
pickupUnguarded(s, i, k) ==
    LET e == s.elevators[i]
        request == s.pendingRequests[k]
    IN  IF request.fromFloor = e.currentFloor /\ ~request.isPickupComplete
        THEN [s EXCEPT !.elevators[i].passengerCount = @ + 1,
                       !.pendingRequests[k].isPickupComplete = TRUE,
                       !.pendingRequests[k].pickupTime = s.currentTime,
                       !.tickLog.pickups = @ \cup {request.id}]
        ELSE s

(* The pickup statement releasing the request when the elevator is full.    *)
pickupReleasing(s, i, k) ==
    LET e == s.elevators[i]
        request == s.pendingRequests[k]
    IN  IF request.fromFloor = e.currentFloor /\ ~request.isPickupComplete
        THEN IF hasCapacity(e)
             THEN [s EXCEPT !.elevators[i] = addPassengers(e, 1),
                            !.pendingRequests[k].isPickupComplete = TRUE,
                            !.pendingRequests[k].pickupTime = s.currentTime,
                            !.tickLog.pickups = @ \cup {request.id}]
             ELSE [s EXCEPT !.pendingRequests[k].isAssigned = FALSE,
                            !.tickLog.failedPickups = @ \cup {request.id}]
        ELSE s

(* processPassengers, the "Pickup passengers" statement for the request at  *)
(* index k of the pool and the elevator at index i.                         *)
pickup(s, i, k) ==
    LET e == s.elevators[i]
        request == s.pendingRequests[k]
    IN  IF request.fromFloor = e.currentFloor /\ ~request.isPickupComplete
        THEN IF hasCapacity(e)
             THEN [s EXCEPT !.elevators[i] = addPassengers(e, 1),
                            !.pendingRequests[k].isPickupComplete = TRUE,
                            !.pendingRequests[k].pickupTime = s.currentTime,
                            !.tickLog.pickups = @ \cup {request.id}]
             ELSE [s EXCEPT !.tickLog.failedPickups = @ \cup {request.id}]
        ELSE s

(* `x || currentTime` for a time x: undefined and 0 are falsy. *)
TimeOr(x, currentTime) == IF x = Undefined \/ x = 0 THEN currentTime ELSE x

(* The drop-off statement without the test of the floor. *)
dropOffAnywhere(s, i, k) ==
    LET e == s.elevators[i]
        request == s.pendingRequests[k]
        pickupTime == TimeOr(request.pickupTime, s.currentTime)
        waitTime == pickupTime - request.timestamp
        travelTime == TimeOr(s.currentTime, s.currentTime) - pickupTime
    IN  IF /\ request.isPickupComplete /\ ~request.isDeliveryComplete
        THEN [s EXCEPT !.elevators[i] = removePassengers(e, 1),
                       !.pendingRequests[k] =
                           [@ EXCEPT !.isDeliveryComplete = TRUE,
                                     !.deliveryTime = s.currentTime,
                                     !.isAssigned = FALSE,
                                     !.assignedElevatorId = Undefined],
                       !.completedRequests = @ + 1,
                       !.completedRequestsWithTimes =
                           Append(@, [waitTime |-> waitTime, travelTime |-> travelTime,
                                      completionTime |-> s.currentTime]),
                       !.tickLog.deliveries = @ \cup {request.id}]
        ELSE s

(* The drop-off statement without elevator.removePassengers(1). *)
dropOffStaying(s, i, k) ==
    LET e == s.elevators[i]
        request == s.pendingRequests[k]
        pickupTime == TimeOr(request.pickupTime, s.currentTime)
        waitTime == pickupTime - request.timestamp
        travelTime == TimeOr(s.currentTime, s.currentTime) - pickupTime
    IN  IF /\ request.toFloor = e.currentFloor
           /\ request.isPickupComplete /\ ~request.isDeliveryComplete
        THEN [s EXCEPT !.pendingRequests[k] =
                           [@ EXCEPT !.isDeliveryComplete = TRUE,
                                     !.deliveryTime = s.currentTime,
                                     !.isAssigned = FALSE,
                                     !.assignedElevatorId = Undefined],
                       !.completedRequests = @ + 1,
                       !.completedRequestsWithTimes =
                           Append(@, [waitTime |-> waitTime, travelTime |-> travelTime,
                                      completionTime |-> s.currentTime]),
                       !.tickLog.deliveries = @ \cup {request.id}]
        ELSE s

(* processPassengers, the "Drop off passengers" statement. *)
dropOff(s, i, k) ==
    LET e == s.elevators[i]
        request == s.pendingRequests[k]
        pickupTime == TimeOr(request.pickupTime, s.currentTime)
        waitTime == pickupTime - request.timestamp
        travelTime == TimeOr(s.currentTime, s.currentTime) - pickupTime
    IN  IF /\ request.toFloor = e.currentFloor
           /\ request.isPickupComplete /\ ~request.isDeliveryComplete
        THEN [s EXCEPT !.elevators[i] = removePassengers(e, 1),
                       !.pendingRequests[k] =
                           [@ EXCEPT !.isDeliveryComplete = TRUE,
                                     !.deliveryTime = s.currentTime,
                                     !.isAssigned = FALSE,
                                     !.assignedElevatorId = Undefined],
                       !.completedRequests = @ + 1,
                       !.completedRequestsWithTimes =
                           Append(@, [waitTime |-> waitTime, travelTime |-> travelTime,
                                      completionTime |-> s.currentTime]),
                       !.tickLog.deliveries = @ \cup {request.id}]
        ELSE s

(* processPassengers without the cleanup of the elevator's assignedRequests. *)
processPassengersListed(s, i) ==
    LET e == s.elevators[i]
        AtFloor(r) ==
            /\ r.isAssigned /\ r.assignedElevatorId = e.id
            /\ \/ (r.fromFloor = e.currentFloor /\ ~r.isPickupComplete)
               \/ (r.toFloor = e.currentFloor /\ r.isPickupComplete /\ ~r.isDeliveryComplete)
        Remove(served, completedRequests) ==
            LET Left(r) == r.id \notin completedRequests
            IN  [served EXCEPT !.pendingRequests = Filter(@, Left)]
    IN  The({The({LET Done(k) == served.pendingRequests[k].isDeliveryComplete
                      doneAt == Filter(requestsAtFloor, Done)
                  IN  The({Remove(served, completedRequests) :
                           completedRequests \in
                               {{served.pendingRequests[k].id :
                                    k \in {doneAt[j] : j \in Indices(doneAt)}}}}) :
                  served \in
                      {LET Serve(t, j) ==
                               The({dropOff(u, i, requestsAtFloor[j]) :
                                    u \in {pickup(t, i, requestsAtFloor[j])}})
                       IN  ForEach(s, 1, Len(requestsAtFloor), Serve)}}) :
             requestsAtFloor \in {SelectIdx(s.pendingRequests, AtFloor)}})

processPassengers(s, i) ==
    LET e == s.elevators[i]
        AtFloor(r) ==
            /\ r.isAssigned /\ r.assignedElevatorId = e.id
            /\ \/ (r.fromFloor = e.currentFloor /\ ~r.isPickupComplete)
               \/ (r.toFloor = e.currentFloor /\ r.isPickupComplete /\ ~r.isDeliveryComplete)
        \* the removal of the completed requests from the pool and from the
        \* elevator's list (findIndex + splice per completed request: its
        \* first occurrence goes)
        Remove(served, completedRequests) ==
            LET Left(r) == r.id \notin completedRequests
                assignedIdx ==
                    [k \in Indices(served.elevators[i].assignedRequests) |-> k]
                Stays(k) ==
                    LET id == served.elevators[i].assignedRequests[k]
                    IN  \/ id \notin completedRequests
                        \/ \E j \in 1..(k - 1) :
                               served.elevators[i].assignedRequests[j] = id
            IN  The({[served EXCEPT
                         !.pendingRequests = Filter(@, Left),
                         !.elevators[i].assignedRequests =
                             Array([j \in Indices(staying) |-> @[staying[j]]])] :
                     staying \in {SelectSeq(assignedIdx, Stays)}})
    \* requestsAtFloor, as the indices of its requests in the pool
    IN  The({The({LET Done(k) == served.pendingRequests[k].isDeliveryComplete
                      doneAt == Filter(requestsAtFloor, Done)
                  IN  The({Remove(served, completedRequests) :
                           completedRequests \in
                               {{served.pendingRequests[k].id :
                                    k \in {doneAt[j] : j \in Indices(doneAt)}}}}) :
                  served \in
                      {LET Serve(t, j) ==
                               The({dropOff(u, i, requestsAtFloor[j]) :
                                    u \in {pickup(t, i, requestsAtFloor[j])}})
                       IN  ForEach(s, 1, Len(requestsAtFloor), Serve)}}) :
             requestsAtFloor \in {SelectIdx(s.pendingRequests, AtFloor)}})

(* SimulationEngine.getAssignedRequests *)
getAssignedRequests(s, e) ==
    LET Mine(r) == r.assignedElevatorId = e.id
    IN  Filter(s.pendingRequests, Mine)

(* The comparator taking a priority difference above 10 for significant. *)
engineBeforeNarrow(s, a, b) ==
    LET priorityA == getPriority(a, s.currentTime)
        priorityB == getPriority(b, s.currentTime)
    IN  IF Abs(priorityA - priorityB) > 10 * PriorityScale
        THEN priorityB - priorityA < 0
        ELSE getWaitTime(b, s.currentTime) - getWaitTime(a, s.currentTime) < 0

(* The comparator of updateElevatorTargetsForRequests, cmp(a, b) < 0. *)
engineBefore(s, a, b) ==
    LET priorityA == getPriority(a, s.currentTime)
        priorityB == getPriority(b, s.currentTime)
    IN  IF Abs(priorityA - priorityB) > 50 * PriorityScale
        THEN priorityB - priorityA < 0
        ELSE getWaitTime(b, s.currentTime) - getWaitTime(a, s.currentTime) < 0

updateElevatorTargetsForRequests(s, i) ==
    LET e == s.elevators[i]
        Aim(nextRequest) ==
            LET targetFloor ==
                    IF ~nextRequest.isPickupComplete THEN nextRequest.fromFloor
                    ELSE nextRequest.toFloor
            IN  IF e.targetFloor # targetFloor
                THEN [s EXCEPT !.elevators[i] = setTarget(e, targetFloor)]
                ELSE s
    IN  The({IF Len(assignedRequests) = 0 THEN s
             ELSE LET Before(j, k) ==
                          engineBefore(s, assignedRequests[j], assignedRequests[k])
                  IN  The({Aim(nextRequest) :
                           nextRequest \in
                               {assignedRequests[SortedFirst(assignedRequests, Before)]}}) :
             assignedRequests \in {getAssignedRequests(s, e)}})

(* The body of updateElevators' for loop without the call of               *)
(* updateElevatorTargetsForRequests after a stop.                           *)
updateElevatorParking(s, i) ==
    LET e == s.elevators[i]
    IN  IF e.targetFloor # Undefined
        THEN IF hasReachedTarget(e)
             THEN The({[served EXCEPT !.elevators[i] = closeDoors(@)] :
                       served \in
                           {processPassengers(arrived, i) :
                            arrived \in
                                {[s EXCEPT !.elevators[i] = openDoors(stop(e))]}}})
             ELSE [s EXCEPT !.elevators[i] = move(e)]
        ELSE updateElevatorTargetsForRequests(s, i)

(* The body of updateElevators' for loop, for the elevator at index i. *)
updateElevator(s, i) ==
    LET e == s.elevators[i]
    IN  IF e.targetFloor # Undefined
        THEN IF hasReachedTarget(e)
             THEN The({[retargeted EXCEPT !.elevators[i] = closeDoors(@)] :
                       retargeted \in
                           {updateElevatorTargetsForRequests(served, i) :
                            served \in
                                {processPassengers(arrived, i) :
                                 arrived \in
                                     {[s EXCEPT !.elevators[i] = openDoors(stop(e))]}}}})
             ELSE [s EXCEPT !.elevators[i] = move(e)]
        ELSE updateElevatorTargetsForRequests(s, i)

updateElevators(s) == ForEach(s, 1, Len(s.elevators), updateElevator)

(* step() without the early return of an engine that is not running. *)
stepUnguarded(s, pair) ==
    The({updateElevators(assigned) :
         assigned \in
             {processRequests(generated) :
              generated \in
                  {generateRequests(ticked, pair) :
                   ticked \in {[s EXCEPT !.currentTime = @ + s.speed,
                                         !.tickLog = EmptyLog]}}}})

(* step(); pair is the draw of the request generator, read only when a      *)
(* request is due.  updateStatistics writes derived statistics only.        *)
step(s, pair) ==
    IF ~s.isRunning THEN [s EXCEPT !.tickLog = EmptyLog]
    ELSE The({updateElevators(assigned) :
              assigned \in
                  {processRequests(generated) :
                   generated \in
                       {generateRequests(ticked, pair) :
                        ticked \in {[s EXCEPT !.currentTime = @ + s.speed,
                                              !.tickLog = EmptyLog]}}}})

addManualRequest(s, fromFloor, toFloor) ==
    LET request == RequestClass(nextId(s), fromFloor, toFloor, s.currentTime)
    IN  [s EXCEPT !.pendingRequests = Append(@, request),
                  !.totalRequests = @ + 1, !.tickLog = EmptyLog]

addLongWaitingRequest(s, fromFloor, toFloor) ==
    LET request == RequestClass(nextId(s), fromFloor, toFloor, s.currentTime - LongWait)
    IN  [s EXCEPT !.pendingRequests = Append(@, request),
                  !.totalRequests = @ + 1, !.tickLog = EmptyLog]

(* addManualElevatorRequest returning early when no elevator has the id. *)
addManualElevatorRequestStrict(s, elevatorId, fromFloor, toFloor) ==
    LET request == [RequestClass(nextId(s), fromFloor, toFloor, s.currentTime)
                       EXCEPT !.assignedElevatorId = elevatorId]
        Named(e) == e.id = elevatorId
        assignedElevator == FindIndex(s.elevators, Named)
    IN  IF assignedElevator # 0
        THEN The({[assigned EXCEPT
                      !.pendingRequests = Append(@, markAssigned(request, elevatorId)),
                      !.totalRequests = @ + 1, !.tickLog = EmptyLog] :
                  assigned \in {assignRequest(s, request, assignedElevator)}})
        ELSE [s EXCEPT !.tickLog = EmptyLog]

addManualElevatorRequest(s, elevatorId, fromFloor, toFloor) ==
    LET request == [RequestClass(nextId(s), fromFloor, toFloor, s.currentTime)
                       EXCEPT !.assignedElevatorId = elevatorId]
        Named(e) == e.id = elevatorId
        assignedElevator == FindIndex(s.elevators, Named)
    IN  IF assignedElevator # 0
        THEN The({[assigned EXCEPT
                      !.pendingRequests = Append(@, markAssigned(request, elevatorId)),
                      !.totalRequests = @ + 1, !.tickLog = EmptyLog] :
                  assigned \in {assignRequest(s, request, assignedElevator)}})
        ELSE [s EXCEPT !.pendingRequests = Append(@, request),
                       !.totalRequests = @ + 1, !.tickLog = EmptyLog]

(***************************************************************************)
(* The state: the fields of the engine, and budget, a bound of the model:  *)
(* the number of commands other than start (stop, reset, a setting, a      *)
(* rush-hour switch, an injection) and of generated requests that the      *)
(* behaviour may still take.                                               *)
(***************************************************************************)
VARIABLES isRunning, currentTime, speed, totalFloors, totalElevators, elevators,
          pendingRequests, requestFrequency, lastRequestTime, totalRequests,
          completedRequests, completedRequestsWithTimes, isRushHour, rushHourType,
          schedulerLinked, tickLog, budget,
          simulationInterval, timers, fired, ticks, sockets

vars == <<isRunning, currentTime, speed, totalFloors, totalElevators, elevators,
          pendingRequests, requestFrequency, lastRequestTime, totalRequests,
          completedRequests, completedRequestsWithTimes, isRushHour, rushHourType,
          schedulerLinked, tickLog, budget,
          simulationInterval, timers, fired, ticks, sockets>>

(***************************************************************************)
(* The server around the engine: simulationInterval is the module-level    *)
(* handle of the last setInterval (0 for null), timers the intervals alive  *)
(* in the event loop, fired those whose callback has run, or that were      *)
(* created, in the current cadence interval (one second), ticks the number  *)
(* of ticks the engine has executed in it, sockets the connected clients.   *)
(***************************************************************************)
server == <<simulationInterval, timers, fired, ticks, sockets>>

(* No client, no interval: the server as the engine's operations see it. *)
NoTimer ==
    /\ simulationInterval = 0 /\ timers = {} /\ fired = {} /\ ticks = 0
    /\ sockets = {}

(* The engine state held by the variables. *)
St ==
    [isRunning |-> isRunning, currentTime |-> currentTime, speed |-> speed,
     totalFloors |-> totalFloors, totalElevators |-> totalElevators,
     elevators |-> elevators, pendingRequests |-> pendingRequests,
     requestFrequency |-> requestFrequency, lastRequestTime |-> lastRequestTime,
     totalRequests |-> totalRequests, completedRequests |-> completedRequests,
     completedRequestsWithTimes |-> completedRequestsWithTimes,
     isRushHour |-> isRushHour, rushHourType |-> rushHourType,
     schedulerLinked |-> schedulerLinked, tickLog |-> tickLog]

(* The variables hold engine state s. *)
Holds(s) ==
    /\ isRunning = s.isRunning /\ currentTime = s.currentTime /\ speed = s.speed
    /\ totalFloors = s.totalFloors /\ totalElevators = s.totalElevators
    /\ elevators = s.elevators /\ pendingRequests = s.pendingRequests
    /\ requestFrequency = s.requestFrequency /\ lastRequestTime = s.lastRequestTime
    /\ totalRequests = s.totalRequests /\ completedRequests = s.completedRequests
    /\ completedRequestsWithTimes = s.completedRequestsWithTimes
    /\ isRushHour = s.isRushHour /\ rushHourType = s.rushHourType
    /\ schedulerLinked = s.schedulerLinked /\ tickLog = s.tickLog

(* The next state holds engine state s. *)
EngineBecomes(s) ==
    /\ isRunning' = s.isRunning /\ currentTime' = s.currentTime /\ speed' = s.speed
    /\ totalFloors' = s.totalFloors /\ totalElevators' = s.totalElevators
    /\ elevators' = s.elevators /\ pendingRequests' = s.pendingRequests
    /\ requestFrequency' = s.requestFrequency /\ lastRequestTime' = s.lastRequestTime
    /\ totalRequests' = s.totalRequests /\ completedRequests' = s.completedRequests
    /\ completedRequestsWithTimes' = s.completedRequestsWithTimes
    /\ isRushHour' = s.isRushHour /\ rushHourType' = s.rushHourType
    /\ schedulerLinked' = s.schedulerLinked /\ tickLog' = s.tickLog

(* The same as the effect of an operation of the engine, which leaves the   *)
(* server's intervals alone.                                                *)
Becomes(s) == EngineBecomes(s) /\ UNCHANGED server

(* Inputs of the operations. *)
Configs == {<<2, 1>>, <<3, 2>>}       \* <<totalFloors, totalElevators>>
Speeds == {0, 1, 2}                   \* setSpeed
Frequencies == {0, 1}                 \* setRequestFrequency
\* floors of an injected request: the injection calls take any number; the
\* floors of the building, and the floor above the top one
InjectedFloors == 1..(totalFloors + 1)
InjectedIds == 1..(totalElevators + 1) \* elevator ids of an injected request

Init ==
    /\ \E cfg \in Configs : Holds(SimulationEngine(cfg[1], cfg[2]))
    /\ budget = MaxCommands
    /\ NoTimer

Start == Becomes(start(St)) /\ UNCHANGED budget

Stop == budget > 0 /\ Becomes(stopSimulation(St)) /\ budget' = budget - 1

Reset == budget > 0 /\ Becomes(reset(St)) /\ budget' = budget - 1

SetSpeed ==
    /\ budget > 0
    /\ \E v \in Speeds : Becomes(setSpeed(St, v))
    /\ budget' = budget - 1

SetRequestFrequency ==
    /\ budget > 0
    /\ \E f \in Frequencies : Becomes(setRequestFrequency(St, f))
    /\ budget' = budget - 1

StartMorningRush == budget > 0 /\ Becomes(startMorningRush(St)) /\ budget' = budget - 1

StartEveningRush == budget > 0 /\ Becomes(startEveningRush(St)) /\ budget' = budget - 1

EndRushHour == budget > 0 /\ Becomes(endRushHour(St)) /\ budget' = budget - 1

AddManualRequest ==
    /\ budget > 0
    /\ \E o \in InjectedFloors, d \in InjectedFloors : Becomes(addManualRequest(St, o, d))
    /\ budget' = budget - 1

AddLongWaitingRequest ==
    /\ budget > 0
    /\ \E o \in InjectedFloors, d \in InjectedFloors :
           Becomes(addLongWaitingRequest(St, o, d))
    /\ budget' = budget - 1

AddManualElevatorRequest ==
    /\ budget > 0
    /\ \E id \in InjectedIds, o \in InjectedFloors, d \in InjectedFloors :
           Becomes(addManualElevatorRequest(St, id, o, d))
    /\ budget' = budget - 1

(* The engine state when generateRequests runs in the coming tick. *)
Ticked == [St EXCEPT !.currentTime = @ + speed]

(* The draws of the request generator in the coming tick: none is made     *)
(* (<<0, 0>>) unless a request is due.                                      *)
Draws ==
    IF isRunning /\ requestDue(Ticked) THEN generateRandomRequest(St) ELSE {<<0, 0>>}

(* One timer tick (the setInterval callback calls step()).  The clock stops *)
(* at MaxTime, and a request is generated only while the budget lasts.      *)
Step ==
    /\ isRunning => currentTime + speed <= MaxTime
    /\ (isRunning /\ requestDue(Ticked)) => budget > 0
    /\ \E pair \in Draws : \E t \in {step(St, pair)} : Becomes(t)
    /\ budget' = IF isRunning /\ requestDue(Ticked) THEN budget - 1 ELSE budget

Next ==
    \/ Start \/ Stop \/ Reset \/ SetSpeed \/ SetRequestFrequency
    \/ StartMorningRush \/ StartEveningRush \/ EndRushHour
    \/ AddManualRequest \/ AddLongWaitingRequest \/ AddManualElevatorRequest
    \/ Step

Spec == Init /\ [][Next]_vars

(***************************************************************************)
(* Prepared loads.  Filling an elevator takes maxCapacity = 15 requests,   *)
(* far more commands than Spec's budget allows, so SpecLoaded starts from  *)
(* engine states reached by a script of commands: each is computed from    *)
(* the constructor by the operations above, hence reachable.  A script     *)
(* first stops request generation (frequency 0, or speed 0, which freezes  *)
(* the clock while the timer keeps ticking).                               *)
(***************************************************************************)
Repeat(x, n) == [j \in 1..n |-> x]

(* One command of a script applied to engine state s. *)
Apply(s, c) ==
    IF c[1] = "speed" THEN setSpeed(s, c[2])
    ELSE IF c[1] = "frequency" THEN setRequestFrequency(s, c[2])
    ELSE IF c[1] = "request" THEN addManualRequest(s, c[2], c[3])
    ELSE IF c[1] = "elevatorRequest" THEN addManualElevatorRequest(s, c[2], c[3], c[4])
    ELSE IF c[1] = "start" THEN start(s)
    ELSE step(s, <<0, 0>>)

(* The commands lo..hi of a script applied in order to engine state s. *)
RECURSIVE RunFrom(_, _, _, _)
RunFrom(s, script, lo, hi) ==
    IF lo > hi THEN s
    ELSE IF lo = hi THEN Apply(s, script[lo])
    ELSE The({RunFrom(t, script, ((lo + hi) \div 2) + 1, hi) :
              t \in {RunFrom(s, script, lo, (lo + hi) \div 2)}})

(* A prepared scenario <<totalFloors, totalElevators, script>>: the engine  *)
(* constructed with these sizes, after the commands of the script.          *)
Run(scenario) ==
    The({RunFrom(p[1], p[2], 1, Len(p[2])) :
         p \in {<<SimulationEngine(scenario[1], scenario[2]), scenario[3]>>}})

Frozen == <<<<"speed", 0>>>>
Quiet == <<<<"frequency", 0>>>>

(* n requests from floor 2 down to floor 1. *)
Down(n) == Repeat(<<"request", 2, 1>>, n)

(* One elevator, starting at floor 1: a full car's worth of passengers      *)
(* waiting at floor 2, and one more.                                        *)
FullCar == <<2, 1, Frozen \o Down(MaxCapacity)>>
FullCarQuiet == <<2, 1, Quiet \o Down(MaxCapacity + 1)>>
OverfullCar == <<2, 1, Frozen \o Down(MaxCapacity + 1)>>

(* Two elevators, starting at floors 1 and 2, each given a full car's worth *)
(* of requests whose origin is the other's floor.                           *)
TwoFullCars ==
    <<2, 2, Frozen \o Repeat(<<"elevatorRequest", 1, 2, 1>>, MaxCapacity)
                  \o Repeat(<<"elevatorRequest", 2, 1, 2>>, MaxCapacity)>>

(* Two elevators, four requests forced onto the first: a load difference of *)
(* four, above the rebalancing threshold.                                   *)
Lopsided ==
    <<3, 2, Quiet \o <<<<"elevatorRequest", 1, 2, 3>>, <<"elevatorRequest", 1, 3, 1>>,
                       <<"elevatorRequest", 1, 1, 2>>, <<"elevatorRequest", 1, 2, 1>>>>>>

(* The same with the first request already riding in the first elevator    *)
(* when the other three arrive.                                             *)
LopsidedRiding ==
    <<3, 2, Quiet \o <<<<"elevatorRequest", 1, 1, 3>>, <<"start">>, <<"step">>,
                       <<"step">>, <<"elevatorRequest", 1, 3, 1>>, <<"elevatorRequest", 1, 1, 2>>,
                       <<"elevatorRequest", 1, 2, 1>>>>>>

(* One elevator, starting at floor 1 of three: a passenger waiting at the   *)
(* top floor to go down.                                                    *)
TopFloorCall == <<3, 1, Quiet \o <<<<"request", 3, 1>>>>>>

(* Two elevators, at floors 1 and 3 of five: a passenger waiting at the top *)
(* floor to go down.                                                        *)
FarCall == <<5, 2, Quiet \o <<<<"request", 5, 1>>>>>>

(* Three elevators, starting at floors 1, 2 and 3: four requests forced     *)
(* onto the first and one onto the second.                                  *)
LopsidedThree ==
    <<3, 3, Quiet \o <<<<"elevatorRequest", 1, 2, 3>>, <<"elevatorRequest", 1, 3, 1>>,
                       <<"elevatorRequest", 1, 1, 2>>, <<"elevatorRequest", 1, 2, 1>>,
                       <<"elevatorRequest", 2, 3, 2>>>>>>

(* One elevator of three floors with a full car riding from floor 2 to     *)
(* floor 3, and two passengers who call it meanwhile.                       *)
FullCarCalled ==
    <<3, 1, Frozen \o Repeat(<<"request", 2, 3>>, MaxCapacity)
                  \o <<<<"start">>, <<"step">>, <<"step">>,
                       <<"request", 1, 2>>, <<"request", 3, 1>>>>>>

LoadedStates ==
    {Run(scenario) :
        scenario \in {FullCar, FullCarQuiet, OverfullCar, TwoFullCars,
                      Lopsided, LopsidedRiding, TopFloorCall, FarCall, LopsidedThree,
                      FullCarCalled}}

InitLoaded ==
    /\ \E s \in LoadedStates : Holds(s)
    /\ budget = MaxExtra
    /\ NoTimer

SpecLoaded == InitLoaded /\ [][Next]_vars

(***************************************************************************)
(* The timer.  start-simulation installs setInterval(() => step(), 1000)   *)
(* and the interval fires until it is cleared, so a running engine keeps   *)
(* ticking: SpecLive is the running engine under its timer alone, weakly   *)
(* fair, from a set of started scenarios in which no request arrives any   *)
(* more (frequency 0, or speed 0, which also keeps the model's clock from  *)
(* running out).                                                           *)
(***************************************************************************)
Started(totalFloorsOf, totalElevatorsOf, script) ==
    <<totalFloorsOf, totalElevatorsOf, script \o <<<<"start">>>>>>

(* Scenario 1 of the specification and its neighbours: one elevator, one    *)
(* request. *)
SmallFloors == 1..5
TallFloors == {1, 49, 50, 51, 60}
SingleRequestScenarios ==
    {Started(2, 1, Quiet \o <<<<"request", p[1], p[2]>>>>) :
        p \in {<<1, 2>>, <<2, 1>>}}
    \cup {Started(5, 1, Frozen \o <<<<"request", p[1], p[2]>>>>) :
        p \in {q \in SmallFloors \X SmallFloors : q[1] # q[2]}}
    \cup {Started(60, 1, Frozen \o <<<<"request", p[1], p[2]>>>>) :
        p \in {q \in TallFloors \X TallFloors : q[1] # q[2]}}

(* One elevator at floor 1 of three floors: n passengers waiting at floor 2 *)
(* to go down, alone or after a request 1 -> 2 and a request 3 -> 1.        *)
CrowdScenarios ==
    {Started(3, 1, Frozen \o Down(n)) : n \in {MaxCapacity, MaxCapacity + 1}}
    \cup {Started(3, 1, Frozen \o <<<<"request", 1, 2>>, <<"request", 3, 1>>>> \o Down(n)) :
            n \in {MaxCapacity - 1, MaxCapacity, MaxCapacity + 1}}

LiveStates == {Run(scenario) : scenario \in SingleRequestScenarios \cup CrowdScenarios}

InitLive ==
    /\ \E s \in LiveStates : Holds(s)
    /\ budget = 0
    /\ NoTimer

SpecLive == InitLive /\ [][Step]_vars /\ WF_vars(Step)

(* The model's clock has run out: the timer would tick, the model does not. *)
ClockExhausted == isRunning /\ currentTime + speed > MaxTime

(***************************************************************************)
(* Properties.                                                             *)
(***************************************************************************)

(* The ids of the requests of a pool, and the request of a pool with an id. *)
(* Ids are 1, 2, ... in order of construction and start again after reset,  *)
(* which empties the pool.                                                  *)
Ids(pool) == {pool[k].id : k \in Indices(pool)}

Find(pool, id) == pool[CHOOSE k \in Indices(pool) : pool[k].id = id]

(* The requests that are in the pool before and after a step. *)
Kept == Ids(pendingRequests) \cap Ids(pendingRequests')

(* The lifecycle state of a request: 0 Unassigned, 1 Assigned, 2 PickedUp,  *)
(* 3 Delivered.                                                             *)
Stage(r) ==
    IF r.isDeliveryComplete THEN 3
    ELSE IF r.isPickupComplete THEN 2
    ELSE IF r.isAssigned THEN 1
    ELSE 0

(* Every elevator is at capacity. *)
AllFull == \A i \in Indices(elevators) : elevators[i].passengerCount = elevators[i].maxCapacity

(* The number of places at which x occurs in seq. *)
Occurrences(seq, x) == Cardinality({k \in Indices(seq) : seq[k] = x})

(* C1: in every reachable state, every elevator's passengerCount is at      *)
(* least 0 and at most its maxCapacity.                                     *)
C1_CapacityInvariant ==
    \A i \in Indices(elevators) :
        /\ 0 <= elevators[i].passengerCount
        /\ elevators[i].passengerCount <= elevators[i].maxCapacity

(* C1's case: a full elevator has just turned a passenger away. *)
C1_FullCarTurnsAway ==
    \E i \in Indices(elevators) :
        /\ elevators[i].passengerCount = elevators[i].maxCapacity
        /\ tickLog.failedPickups # {}

(* C2: after every tick and every injection, totalRequests equals           *)
(* completedRequests plus the number of requests in the pending pool.       *)
C2_Conservation == totalRequests = completedRequests + Len(pendingRequests)

(* C2's case: requests have been generated or injected, some are delivered  *)
(* and some are pending.                                                    *)
C2_DeliveredAndPending == completedRequests >= 1 /\ Len(pendingRequests) >= 1

(* C3: the lifecycle state of a request never moves backward, and a request *)
(* is delivered only if it was picked up before or in the same tick.  (A    *)
(* delivered request leaves the pool in the tick of its delivery.)          *)
C3_MonotonicLifecycle ==
    [][/\ \A id \in Kept :
              Stage(Find(pendingRequests', id)) >= Stage(Find(pendingRequests, id))
       /\ \A id \in tickLog'.deliveries :
              \/ id \in tickLog'.pickups
              \/ id \in Ids(pendingRequests) /\ Stage(Find(pendingRequests, id)) = 2]_vars

(* C3's case: a tick has delivered requests picked up in an earlier tick,   *)
(* while another request is still assigned and waiting.                     *)
C3_DeliveryAmongWaiting ==
    /\ tickLog.deliveries # {}
    /\ tickLog.pickups = {}
    /\ \E k \in Indices(pendingRequests) : Stage(pendingRequests[k]) = 1

(* C4, as claimed: once an elevator id is recorded for a request in the     *)
(* pool, no different id is recorded for it while it stays in the pool.     *)
C4_SingleRecordedId ==
    [][\A id \in Kept :
           Find(pendingRequests, id).assignedElevatorId # Undefined
           => Find(pendingRequests', id).assignedElevatorId
                  = Find(pendingRequests, id).assignedElevatorId]_vars

(* The first elevator with the most, and with the fewest, assigned ids. *)
MostLoaded ==
    CHOOSE i \in Indices(elevators) :
        /\ \A j \in Indices(elevators) :
               Len(elevators[j].assignedRequests) <= Len(elevators[i].assignedRequests)
        /\ \A j \in 1..(i - 1) :
               Len(elevators[j].assignedRequests) < Len(elevators[i].assignedRequests)

LeastLoaded ==
    CHOOSE i \in Indices(elevators) :
        /\ \A j \in Indices(elevators) :
               Len(elevators[j].assignedRequests) >= Len(elevators[i].assignedRequests)
        /\ \A j \in 1..(i - 1) :
               Len(elevators[j].assignedRequests) > Len(elevators[i].assignedRequests)

(* C4, amended: the elevator id recorded for a request in the pool changes  *)
(* only before the request is picked up, and only (a) in a tick whose       *)
(* rebalancing moves the request from the first most-loaded elevator to the *)
(* first least-loaded one, their loads differing by more than 3, or (b)     *)
(* from an id that matches no elevator to the elevator the request is then  *)
(* assigned to.                                                             *)
C4_IdChangesOnlyByRebalancing ==
    [][\A id \in Kept :
           LET old == Find(pendingRequests, id)
               new == Find(pendingRequests', id)
           IN  (old.assignedElevatorId # Undefined
                /\ new.assignedElevatorId # old.assignedElevatorId)
               => /\ ~old.isPickupComplete
                  /\ \/ /\ id \in tickLog'.reassigned
                        /\ Len(elevators[MostLoaded].assignedRequests)
                             - Len(elevators[LeastLoaded].assignedRequests)
                               > RebalanceThreshold
                        /\ old.assignedElevatorId = elevators[MostLoaded].id
                        /\ new.assignedElevatorId = elevators[LeastLoaded].id
                     \/ /\ \A i \in Indices(elevators) :
                               elevators[i].id # old.assignedElevatorId
                        /\ new.isAssigned
                        /\ \E i \in Indices(elevators) :
                               elevators[i].id = new.assignedElevatorId]_vars

(* C4's case: rebalancing has just moved a request to the second elevator   *)
(* while a picked-up request stayed with the first.                         *)
C4_Rebalanced ==
    /\ \E id \in tickLog.reassigned :
           id \in Ids(pendingRequests) /\ Find(pendingRequests, id).assignedElevatorId = 2
    /\ \E k \in Indices(pendingRequests) :
           pendingRequests[k].isPickupComplete /\ pendingRequests[k].assignedElevatorId = 1

(* C5: the id of every request in the pool occurs in at most one elevator's *)
(* assignedRequests, at most once, and occurs in an elevator's list exactly *)
(* when the request is marked assigned with that elevator's id.             *)
C5_SingleOwner ==
    \A k \in Indices(pendingRequests) :
        LET r == pendingRequests[k]
            owners == {i \in Indices(elevators) :
                          Occurrences(elevators[i].assignedRequests, r.id) >= 1}
        IN  /\ Cardinality(owners) <= 1
            /\ \A i \in Indices(elevators) :
                   /\ Occurrences(elevators[i].assignedRequests, r.id) <= 1
                   /\ i \in owners
                      <=> (r.isAssigned /\ r.assignedElevatorId = elevators[i].id)

(* C5's case: after a rebalancing, two elevators own requests of the pool.  *)
C5_TwoOwners ==
    /\ tickLog.reassigned # {}
    /\ Len(elevators) = 2
    /\ \A i \in Indices(elevators) : Len(elevators[i].assignedRequests) >= 1

(* C6: except by reset, a request leaves the pending pool only in a tick    *)
(* that delivers it.                                                        *)
C6_LeavesOnlyDelivered ==
    [][Reset \/ Ids(pendingRequests) \subseteq Ids(pendingRequests') \cup tickLog'.deliveries]_vars

(* C6's case: a tick that sorted the pool and in which a pickup failed; the *)
(* request is still in the pool.                                            *)
C6_FailedPickupKept ==
    /\ Len(pendingRequests) > SortThreshold
    /\ \E id \in tickLog.failedPickups : id \in Ids(pendingRequests)

(* The places in the pool of the requests that are unassigned and name no   *)
(* elevator.                                                                *)
Unnamed ==
    {k \in Indices(pendingRequests) :
        ~pendingRequests[k].isAssigned /\ pendingRequests[k].assignedElevatorId = Undefined}

C7_PoolDrains ==
    (totalFloors <= TopFloor) => <>(pendingRequests = <<>> \/ ClockExhausted)

(* C8: one elevator, at least two floors, no generation, one injected       *)
(* request between two different floors of the building: eventually the     *)
(* request is delivered, with completedRequests = 1, an empty pool and an   *)
(* empty elevator.                                                          *)
SingleRequest ==
    /\ Len(elevators) = 1 /\ totalFloors >= 2
    /\ totalRequests = 1 /\ Len(pendingRequests) = 1
    /\ pendingRequests[1].fromFloor # pendingRequests[1].toFloor
    /\ {pendingRequests[1].fromFloor, pendingRequests[1].toFloor} \subseteq 1..totalFloors
    /\ Stage(pendingRequests[1]) = 0

Served ==
    /\ completedRequests = 1
    /\ pendingRequests = <<>>
    /\ elevators[1].passengerCount = 0

C8_SingleRequestServed == SingleRequest => <>(Served \/ ClockExhausted)

(* The latest tick tried to pick up the request constructed last and the    *)
(* elevator was full; the latest tick tried to pick it up, with or without  *)
(* success.                                                                 *)
LastPickupFailed == totalRequests \in tickLog.failedPickups

LastPickupAttempted == totalRequests \in tickLog.pickups \cup tickLog.failedPickups

(* C10: a failed pickup changes nothing (the request stays in the pool,     *)
(* assigned to the same elevator and not picked up, and the elevator stays  *)
(* at capacity), and the pickup is attempted again in a later tick, stated  *)
(* for the request constructed last: the ticks go on failing for ever, or a *)
(* tick after the failing ones attempts the pickup.                         *)
C10_FailedPickupRetried ==
    /\ [](\A id \in tickLog.failedPickups :
              /\ id \in Ids(pendingRequests)
              /\ Stage(Find(pendingRequests, id)) = 1
              /\ \E i \in Indices(elevators) :
                     /\ elevators[i].id = Find(pendingRequests, id).assignedElevatorId
                     /\ elevators[i].passengerCount = elevators[i].maxCapacity)
    /\ [](LastPickupFailed
          => \/ <>[]LastPickupFailed
             \/ <>(~LastPickupFailed /\ <>LastPickupAttempted)
             \/ <>ClockExhausted)

(* Engine state s is as reset() leaves an engine: every elevator at its     *)
(* starting floor, idle, empty, without target or assigned requests, the    *)
(* pool empty, the clock and the counters zero.                             *)
Fresh(s) ==
    /\ Len(s.elevators) = s.totalElevators
    /\ \A i \in Indices(s.elevators) :
           LET e == s.elevators[i]
           IN  /\ e.currentFloor = ((i - 1) * s.totalFloors) \div s.totalElevators + 1
               /\ e.currentFloor \in 1..s.totalFloors
               /\ e.direction = "idle" /\ ~e.isMoving
               /\ e.passengerCount = 0 /\ e.targetFloor = Undefined
               /\ e.assignedRequests = <<>>
    /\ s.pendingRequests = <<>>
    /\ s.currentTime = 0 /\ s.lastRequestTime = 0
    /\ s.totalRequests = 0 /\ s.completedRequests = 0
    /\ s.completedRequestsWithTimes = <<>>

C12_FloorsAndMoves ==
    [][/\ \A i \in Indices(elevators') :
              elevators'[i].currentFloor \in 1..totalFloors'
       /\ \A i \in Indices(elevators) :
              LET e == elevators[i]
              IN  /\ (e.targetFloor # Undefined /\ e.targetFloor > e.currentFloor)
                         => move(e).currentFloor <= e.targetFloor
                  /\ (e.targetFloor # Undefined /\ e.targetFloor < e.currentFloor)
                         => move(e).currentFloor >= e.targetFloor]_vars

(* C13: between ticks every elevator's direction is the sign of            *)
(* targetFloor - currentFloor when it has a target, and idle when it has    *)
(* none.                                                                    *)
C13_DirectionFromTarget ==
    \A i \in Indices(elevators) :
        LET e == elevators[i]
        IN  e.direction =
                IF e.targetFloor = Undefined THEN "idle"
                ELSE IF e.targetFloor > e.currentFloor THEN "up"
                ELSE IF e.targetFloor < e.currentFloor THEN "down"
                ELSE "idle"

(***************************************************************************)
(* The passenger methods of ElevatorClass called directly, with any count, *)
(* on the elevators of a new engine.  A call is made on an elevator whose  *)
(* passengerCount is within [0, maxCapacity].                              *)
(***************************************************************************)
Counts == (0 - MaxBeyond)..(MaxCapacity + MaxBeyond)

WithinCapacity(e) == e.passengerCount \in 0..e.maxCapacity

InitCar ==
    /\ Holds(SimulationEngine(3, 2))
    /\ budget = 0
    /\ NoTimer

AddPassengers ==
    /\ \E i \in Indices(elevators), count \in Counts :
           /\ WithinCapacity(elevators[i])
           /\ elevators' = [elevators EXCEPT ![i] = addPassengers(@, count)]
    /\ UNCHANGED <<isRunning, currentTime, speed, totalFloors, totalElevators,
                   pendingRequests, requestFrequency, lastRequestTime, totalRequests,
                   completedRequests, completedRequestsWithTimes, isRushHour,
                   rushHourType, schedulerLinked, tickLog, budget, server>>

RemovePassengers ==
    /\ \E i \in Indices(elevators), count \in Counts :
           /\ WithinCapacity(elevators[i])
           /\ elevators' = [elevators EXCEPT ![i] = removePassengers(@, count)]
    /\ UNCHANGED <<isRunning, currentTime, speed, totalFloors, totalElevators,
                   pendingRequests, requestFrequency, lastRequestTime, totalRequests,
                   completedRequests, completedRequestsWithTimes, isRushHour,
                   rushHourType, schedulerLinked, tickLog, budget, server>>

SpecCar == InitCar /\ [][AddPassengers \/ RemovePassengers]_vars

(* C14: called on an elevator within capacity with any integer count,       *)
(* addPassengers and removePassengers return false and leave passengerCount *)
(* alone when the call would take it outside [0, maxCapacity], and          *)
(* otherwise return true and change it by exactly the count.                *)
C14_CapacityContract ==
    \A i \in Indices(elevators), count \in Counts :
        LET e == elevators[i]
        IN  WithinCapacity(e) =>
              /\ IF e.passengerCount + count \in 0..e.maxCapacity
                 THEN /\ addPassengersResult(e, count)
                      /\ addPassengers(e, count).passengerCount = e.passengerCount + count
                 ELSE /\ ~addPassengersResult(e, count)
                      /\ addPassengers(e, count).passengerCount = e.passengerCount
              /\ IF e.passengerCount - count \in 0..e.maxCapacity
                 THEN /\ removePassengersResult(e, count)
                      /\ removePassengers(e, count).passengerCount = e.passengerCount - count
                 ELSE /\ ~removePassengersResult(e, count)
                      /\ removePassengers(e, count).passengerCount = e.passengerCount

(* C15: no request of the pool has its origin floor as its destination     *)
(* floor.                                                                   *)
C15_NoSameFloorRequest ==
    \A k \in Indices(pendingRequests) :
        pendingRequests[k].fromFloor # pendingRequests[k].toFloor

(***************************************************************************)
(* The engine constructed with any sizes: the constructor and the          *)
(* initialize-simulation handler take the numbers they are given.          *)
(***************************************************************************)
AnyConfigs == {<<2, 1>>, <<2, 0>>, <<0, 1>>, <<0 - 1, 1>>}

InitAny ==
    /\ \E cfg \in AnyConfigs : Holds(SimulationEngine(cfg[1], cfg[2]))
    /\ budget = MaxExtra
    /\ NoTimer

SpecAny == InitAny /\ [][Next]_vars

(* C16: no engine has an empty fleet or a floor count that is not positive. *)
C16_ValidConfiguration ==
    /\ totalElevators > 0 /\ Len(elevators) > 0
    /\ totalFloors > 0

(* The ids of the elevators of a fleet. *)
FleetIds(fleet) == {fleet[i].id : i \in Indices(fleet)}

(* The requests of the pool, by id, that are unassigned and name an         *)
(* elevator that is not in the fleet.                                       *)
Misnamed ==
    {pendingRequests[k].id : k \in
        {j \in Indices(pendingRequests) :
            /\ ~pendingRequests[j].isAssigned
            /\ pendingRequests[j].assignedElevatorId # Undefined
            /\ pendingRequests[j].assignedElevatorId \notin FleetIds(elevators)}}

(* The engine state at the start of processRequests' assignment loop in a  *)
(* tick that generates no request.                                          *)
Ready ==
    The({IF Len(positioned.pendingRequests) > SortThreshold
         THEN sortRequestsByPriority(positioned)
         ELSE positioned :
         positioned \in
             {predictivePositioning(rebalanced) :
              rebalanced \in
                  {emergencyRebalancing([Ticked EXCEPT !.tickLog = EmptyLog])}}})

(* addManualElevatorRequest with an id of no elevator appends the request,  *)
(* unassigned, counts it, and leaves the fleet alone.                       *)
MisnamedJoins ==
    \A id \in InjectedIds \ FleetIds(elevators), o \in InjectedFloors, d \in InjectedFloors :
        \E t \in {addManualElevatorRequest(St, id, o, d)} :
            /\ Len(t.pendingRequests) = Len(pendingRequests) + 1
            /\ SubSeq(t.pendingRequests, 1, Len(pendingRequests)) = pendingRequests
            /\ t.totalRequests = totalRequests + 1
            /\ t.elevators = elevators
            /\ LET request == t.pendingRequests[Len(t.pendingRequests)]
               IN  /\ Stage(request) = 0
                   /\ request.fromFloor = o /\ request.toFloor = d

(* In a tick of the running engine a misnamed request stays in the pool,    *)
(* unassigned, if every elevator is at capacity; otherwise the tick assigns *)
(* it to an elevator of the fleet (and possibly serves it), and, when it is *)
(* the first request of the assignment loop, to the elevator that           *)
(* findBestElevator returns for it.                                         *)
MisnamedScored ==
    (isRunning /\ Misnamed # {} /\ Step)
    => /\ \A id \in Misnamed :
              IF AllFull
              THEN /\ id \in Ids(pendingRequests')
                   /\ Stage(Find(pendingRequests', id)) = 0
                   /\ id \in tickLog'.unassignable
              ELSE \/ id \in tickLog'.deliveries
                   \/ /\ id \in Ids(pendingRequests')
                      /\ Stage(Find(pendingRequests', id)) >= 1
                      /\ \E i \in Indices(elevators') :
                             /\ elevators'[i].id =
                                    Find(pendingRequests', id).assignedElevatorId
                             /\ Occurrences(elevators'[i].assignedRequests, id) = 1
       /\ \E s \in {[Ready EXCEPT !.schedulerLinked = TRUE]} :
              LET Waiting(r) == ~r.isAssigned
                  k == FindIndex(s.pendingRequests, Waiting)
                  request == s.pendingRequests[k]
              IN  (/\ ~requestDue(Ticked) /\ ~AllFull
                   /\ request.id \in Misnamed
                   /\ request.id \in Ids(pendingRequests'))
                  => Find(pendingRequests', request.id).assignedElevatorId =
                         s.elevators[findBestElevator(s, request)].id

(* C17: a request injected with an id of no elevator joins the pool         *)
(* unassigned, and the first tick in which an elevator has room assigns it  *)
(* by the scoring selection.                                                *)
C17_MisnamedFallsBack == [](MisnamedJoins) /\ [][MisnamedScored]_vars

(* C17's case: a misnamed request that a tick has just found no elevator    *)
(* for, every elevator being full.                                          *)
C17_MisnamedTurnedDown == \E id \in Misnamed : id \in tickLog.unassignable

(* The requests findBestElevator is asked about: the requests of the pool   *)
(* and a new request for every pair of different floors of the building.    *)
Asked ==
    {pendingRequests[k] : k \in Indices(pendingRequests)}
    \cup {RequestClass(nextId(St), o, d, currentTime) :
             o \in 1..totalFloors, d \in 1..totalFloors}

(* The elevators, by index, that have room, and the score of one for a      *)
(* request.                                                                 *)
Roomy == {i \in Indices(elevators) : hasCapacity(elevators[i])}

ScoreOf(i, request) == calculateHybridAggressiveScore(St, elevators[i], request)

(* C18: findBestElevator returns null exactly when no elevator has room,    *)
(* and otherwise an elevator with room whose score no elevator with room    *)
(* exceeds, and whose id is the lowest among those with that score.         *)
C18_BestIsMaximalLowestId ==
    \A request \in Asked :
        \E best \in {findBestElevator(St, request)} :
            IF Roomy = {} THEN best = 0
            ELSE /\ best \in Roomy
                 /\ \A j \in Roomy :
                        /\ ScoreOf(j, request) <= ScoreOf(best, request)
                        /\ ScoreOf(j, request) = ScoreOf(best, request)
                               => elevators[best].id <= elevators[j].id

(* C18's case: two elevators with room and the same score for a request,   *)
(* of which findBestElevator returns the first.                             *)
C18_TiedScores ==
    \E request \in Asked : \E i \in Roomy, j \in Roomy :
        /\ i < j
        /\ ScoreOf(i, request) = ScoreOf(j, request)
        /\ findBestElevator(St, request) = i

(* The engine state after processRequests in a tick that generates no      *)
(* request, and the state in which updateElevators comes to elevator i.     *)
Processed == processRequests([Ticked EXCEPT !.tickLog = EmptyLog])

Reaching(i) == ForEach(Processed, 1, i - 1, updateElevator)

(* The engine states in which the coming tick calls                         *)
(* updateElevatorTargetsForRequests for elevator i: the state it comes to   *)
(* the elevator in if the elevator has no target, the state after           *)
(* processPassengers if it has reached its target, none if it is on its     *)
(* way.                                                                     *)
Retargeting(i) ==
    The({IF s.elevators[i].targetFloor = Undefined THEN {s}
         ELSE IF hasReachedTarget(s.elevators[i])
         THEN {processPassengers([s EXCEPT !.elevators[i] = openDoors(stop(@))], i)}
         ELSE {} :
         s \in {Reaching(i)}})

(* The floor a request calls its elevator to. *)
NextFloor(r) == IF ~r.isPickupComplete THEN r.fromFloor ELSE r.toFloor

(* Of the requests assigned to elevator i in engine state s, those of the  *)
(* highest priority and, among these, those that have waited longest.       *)
Foremost(s, i) ==
    LET assigned == getAssignedRequests(s, s.elevators[i])
        owed == {assigned[k] : k \in Indices(assigned)}
        top == {r \in owed : \A q \in owed :
                   getPriority(q, s.currentTime) <= getPriority(r, s.currentTime)}
    IN  {r \in top : \A q \in top :
            getWaitTime(q, s.currentTime) <= getWaitTime(r, s.currentTime)}

(* C19: a tick that re-targets an elevator with assigned requests (the      *)
(* elevator had no target, or has just stopped at its target) leaves it     *)
(* with the floor of its highest-priority assigned request as target, the   *)
(* longer-waiting one among equal priorities: the origin floor if the       *)
(* request is not picked up, otherwise the destination floor.               *)
C19_TargetsForemostRequest ==
    [][(isRunning /\ ~requestDue(Ticked) /\ Step)
       => \A i \in Indices(elevators) : \A s \in Retargeting(i) :
              getAssignedRequests(s, s.elevators[i]) # <<>>
              => elevators'[i].targetFloor \in
                     {NextFloor(r) : r \in Foremost(s, i)}]_vars

(* The elevators of a fleet, by index, that an assigned request of a pool   *)
(* names.                                                                   *)
Owners(fleet, pool) ==
    {i \in Indices(fleet) :
        \E k \in Indices(pool) :
            pool[k].isAssigned /\ pool[k].assignedElevatorId = fleet[i].id}

(* C20: a tick of the running engine leaves every elevator that an         *)
(* assigned request of the pool names with a target floor.                  *)
C20_OwnersHaveTargets ==
    [][(isRunning /\ Step)
       => \A i \in Owners(elevators', pendingRequests') :
              elevators'[i].targetFloor # Undefined]_vars

(* C20's case: a tick has just re-targeted an elevator that had stopped at  *)
(* a floor, picked up there, and still has a request waiting elsewhere.     *)
C20_RetargetedAfterStop ==
    \E i \in Owners(elevators, pendingRequests) :
        /\ tickLog.pickups # {}
        /\ elevators[i].targetFloor # Undefined
        /\ elevators[i].targetFloor # elevators[i].currentFloor
        /\ \E k \in Indices(pendingRequests) :
               /\ pendingRequests[k].assignedElevatorId = elevators[i].id
               /\ pendingRequests[k].isAssigned /\ ~pendingRequests[k].isPickupComplete

(* The numbers of assigned requests of the elevators, and the elevator of  *)
(* the fleet with a given id.                                               *)
Loads == {Len(elevators[i].assignedRequests) : i \in Indices(elevators)}

ElevatorWithId(id) == elevators[CHOOSE i \in Indices(elevators) : elevators[i].id = id]

(* emergencyRebalancing changes nothing unless the greatest load exceeds    *)
(* the least by more than the threshold; then it changes only the recorded  *)
(* elevator of requests that are not picked up, from an elevator of the     *)
(* greatest load to one of the least, and the lists of assigned requests.   *)
RebalancesOverThreshold ==
    \E t \in {emergencyRebalancing(St)} :
        IF \A m \in Loads, n \in Loads : m - n <= RebalanceThreshold
        THEN t = St
        ELSE /\ Len(t.pendingRequests) = Len(pendingRequests)
             /\ \A k \in Indices(pendingRequests) :
                    LET old == pendingRequests[k]
                        new == t.pendingRequests[k]
                    IN  \/ new = old
                        \/ /\ ~old.isPickupComplete
                           /\ new = [old EXCEPT !.assignedElevatorId = new.assignedElevatorId]
                           /\ old.assignedElevatorId \in FleetIds(elevators)
                           /\ new.assignedElevatorId \in FleetIds(elevators)
                           /\ \A m \in Loads :
                                  /\ m <= Len(ElevatorWithId(old.assignedElevatorId).assignedRequests)
                                  /\ m >= Len(ElevatorWithId(new.assignedElevatorId).assignedRequests)
                           /\ old.id \in tickLog.reassigned \/ old.id \in t.tickLog.reassigned
             /\ \A i \in Indices(elevators) :
                    [t.elevators[i] EXCEPT !.assignedRequests = elevators[i].assignedRequests]
                        = elevators[i]

(* A request that is picked up keeps its elevator, whatever happens. *)
RidersStay ==
    \A id \in Kept :
        Find(pendingRequests, id).isPickupComplete
        => Find(pendingRequests', id).assignedElevatorId
               = Find(pendingRequests, id).assignedElevatorId

(* C21: rebalancing acts only when the greatest and the least number of     *)
(* assigned requests differ by more than 3, and moves only requests that    *)
(* are not picked up, from an elevator of the greatest number to one of the *)
(* least; a request that is picked up never changes elevator.               *)
C21_RebalancingMovesWaitingOnly == [](RebalancesOverThreshold) /\ [][RidersStay]_vars

(* C21's case: a tick has just moved a request to another elevator and left *)
(* an older request, riding in the overloaded elevator, where it was.       *)
C21_RiderSkipped ==
    \E id \in tickLog.reassigned : \E k \in Indices(pendingRequests) :
        /\ pendingRequests[k].isPickupComplete
        /\ pendingRequests[k].id < id
        /\ id \in Ids(pendingRequests)
        /\ pendingRequests[k].assignedElevatorId # Find(pendingRequests, id).assignedElevatorId

(* The states in which predictivePositioning runs in the coming tick: after *)
(* generateRequests and emergencyRebalancing.                               *)
BeforePositioning ==
    {emergencyRebalancing(generated) :
        generated \in {generateRequests([Ticked EXCEPT !.tickLog = EmptyLog], pair) :
                          pair \in Draws}}

(* C22: predictive positioning sets a target only on an elevator that is    *)
(* idle (no target, not moving), has no passengers and no assigned          *)
(* requests, and only when the high-traffic floor is more than 2 floors     *)
(* away; it changes no other elevator's target, and nothing else.           *)
C22_PositionsIdleOnly ==
    isRunning =>
        \A m \in BeforePositioning :
            \E t \in {predictivePositioning(m)} :
                /\ t.pendingRequests = m.pendingRequests
                /\ Len(t.elevators) = Len(m.elevators)
                /\ \A i \in Indices(m.elevators) :
                       LET e == m.elevators[i]
                           positioned == t.elevators[i]
                       IN  \/ positioned = e
                           \/ /\ e.direction = "idle" /\ ~e.isMoving
                              /\ e.targetFloor = Undefined
                              /\ e.passengerCount = 0
                              /\ e.assignedRequests = <<>>
                              /\ positioned.targetFloor = getHighTrafficFloor(m)
                              /\ positioned.targetFloor \in
                                     {m.pendingRequests[k].fromFloor : k \in Indices(m.pendingRequests)}
                                     \cup {m.pendingRequests[k].toFloor : k \in Indices(m.pendingRequests)}
                              /\ Abs(e.currentFloor - positioned.targetFloor) > PositioningThreshold
                              /\ positioned.currentFloor = e.currentFloor
                              /\ positioned.passengerCount = e.passengerCount
                              /\ positioned.assignedRequests = e.assignedRequests

(* C22's case: the tick has just sent one elevator of two to a high-traffic *)
(* floor inside the building and left the other alone.                      *)
C22_Positioned ==
    /\ \E i \in Indices(elevators) :
           /\ elevators[i].id \in tickLog.positioned
           /\ elevators[i].targetFloor \in 1..totalFloors
    /\ \E i \in Indices(elevators) : elevators[i].id \notin tickLog.positioned

(* No request of the pool is delivered, and every id in an elevator's list *)
(* of assigned requests is the id of a request of the pool.                 *)
NoDeliveredPending ==
    /\ \A k \in Indices(pendingRequests) :
           /\ ~pendingRequests[k].isDeliveryComplete
           /\ pendingRequests[k].deliveryTime = Undefined
    /\ \A i \in Indices(elevators) : \A j \in Indices(elevators[i].assignedRequests) :
           elevators[i].assignedRequests[j] \in Ids(pendingRequests)

(* The requests a step delivers are counted, gone from the pool and from    *)
(* every elevator's list after it; the requests it picks up or delivers     *)
(* were in the pool before it or are the one it generated.                  *)
DeliveredRemoved ==
    /\ \A id \in tickLog'.deliveries :
           /\ id \notin Ids(pendingRequests')
           /\ \A i \in Indices(elevators') : \A j \in Indices(elevators'[i].assignedRequests) :
                  elevators'[i].assignedRequests[j] # id
    /\ tickLog'.deliveries # {}
           => completedRequests' = completedRequests + Cardinality(tickLog'.deliveries)
    /\ (tickLog'.deliveries \cup tickLog'.pickups \cup tickLog'.failedPickups)
           \subseteq (Ids(pendingRequests) \cup {totalRequests + 1})

(* C23: at every tick boundary no request of the pool is delivered: a       *)
(* request leaves the pool and its elevator's assigned set in the tick that *)
(* delivers it, and is not processed afterwards.                            *)
C23_DeliveredLeavesPool == [](NoDeliveredPending) /\ [][DeliveredRemoved]_vars

(* C23's case: the tick has just delivered a request of an elevator that    *)
(* keeps other requests assigned.                                           *)
C23_DeliveredBesideOthers ==
    /\ tickLog.deliveries # {}
    /\ \E i \in Indices(elevators) :
           /\ elevators[i].assignedRequests # <<>>
           /\ elevators[i].doorsOpen \/ elevators[i].passengerCount < Len(elevators[i].assignedRequests)
           /\ \E id \in tickLog.deliveries : \E k \in Indices(completedRequestsWithTimes) :
                  completedRequestsWithTimes[k].completionTime = currentTime

(* The time a request delivered in the coming step was or is picked up: a  *)
(* request not yet picked up is picked up by the step that delivers it.     *)
PickedUpAt(r) == IF r.isPickupComplete THEN r.pickupTime ELSE currentTime'

(* The entry the last delivery has added to completedRequestsWithTimes, of  *)
(* which updateStatistics takes the means and the maximum.                  *)
Folded == completedRequestsWithTimes'[Len(completedRequestsWithTimes')]

(* C24: for every delivered request the wait time folded into the mean and  *)
(* maximum wait is deliveryTime - arrivalTime and the travel time folded    *)
(* into the mean travel time is deliveryTime - pickupTime (stated for the   *)
(* steps that deliver one request, whose entry is the last one).            *)
C24_FoldedTimes ==
    [][\A id \in tickLog'.deliveries :
           (tickLog'.deliveries = {id} /\ id \in Ids(pendingRequests))
           => /\ Folded.waitTime = currentTime' - Find(pendingRequests, id).timestamp
              /\ Folded.travelTime = currentTime' - PickedUpAt(Find(pendingRequests, id))]_vars

(* The steps that inject a request by hand: generate-request,              *)
(* test-priority-escalation and generate-elevator-request.                  *)
Injection == AddManualRequest \/ AddLongWaitingRequest \/ AddManualElevatorRequest

(* C25: a manual injection, with or without an elevator id, leaves every    *)
(* elevator's assigned set, targetFloor and direction unchanged, and the    *)
(* injected request unassigned, for the scheduler of the next tick.         *)
C25_InjectionLeavesFleet ==
    [][Injection =>
           /\ \A i \in Indices(elevators) :
                  /\ elevators'[i].assignedRequests = elevators[i].assignedRequests
                  /\ elevators'[i].targetFloor = elevators[i].targetFloor
                  /\ elevators'[i].direction = elevators[i].direction
           /\ ~pendingRequests'[Len(pendingRequests')].isAssigned]_vars

(***************************************************************************)
(* The server's handlers of start-simulation, stop-simulation,             *)
(* reset-simulation and disconnect, for the clients Clients, around an      *)
(* engine of two floors and one elevator that generates no requests         *)
(* (initialize-simulation with requestFrequency 0).  A cadence interval     *)
(* ends (Elapse) when the callback of every interval alive at its beginning *)
(* has run once; an interval created during it first fires in the next.     *)
(***************************************************************************)
Clients == {1, 2}

Handles == 1..MaxTimers

(* new SimulationEngine(2, 1) followed by setRequestFrequency(0). *)
Initialized == setRequestFrequency(SimulationEngine(2, 1), 0)

InitServer ==
    /\ Holds(Initialized)
    /\ budget = 0
    /\ simulationInterval = 0 /\ timers = {} /\ fired = {} /\ ticks = 0
    /\ sockets = {}

(* io.on("connection") *)
Connect ==
    \E c \in Clients \ sockets :
        /\ sockets' = sockets \cup {c}
        /\ EngineBecomes(St)
        /\ UNCHANGED <<simulationInterval, timers, fired, ticks, budget>>

(* if (simulationInterval) { clearInterval(simulationInterval);            *)
(* simulationInterval = null; }                                             *)
ClearInterval ==
    /\ simulationInterval' = 0
    /\ timers' = timers \ {simulationInterval}
    /\ fired' = fired \ {simulationInterval}

(* socket.on("start-simulation"): the handle of the new interval overwrites *)
(* simulationInterval.                                                      *)
StartSimulation ==
    \E c \in sockets : \E handle \in Handles \ timers :
        /\ EngineBecomes(start(St))
        /\ simulationInterval' = handle
        /\ timers' = timers \cup {handle}
        /\ fired' = fired \cup {handle}
        /\ UNCHANGED <<ticks, sockets, budget>>

(* socket.on("stop-simulation") *)
StopSimulation ==
    \E c \in sockets :
        /\ EngineBecomes(stopSimulation(St))
        /\ ClearInterval
        /\ UNCHANGED <<ticks, sockets, budget>>

(* socket.on("reset-simulation"), with the data of initialize-simulation *)
ResetSimulation ==
    \E c \in sockets :
        /\ ClearInterval
        /\ EngineBecomes(Initialized)
        /\ UNCHANGED <<ticks, sockets, budget>>

(* socket.on("disconnect") *)
Disconnect ==
    \E c \in sockets :
        /\ ClearInterval
        /\ sockets' = sockets \ {c}
        /\ EngineBecomes(St)
        /\ UNCHANGED <<ticks, budget>>

(* The callback of an interval: simulationEngine.step(). *)
Fire ==
    \E handle \in timers \ fired :
        /\ isRunning => currentTime + speed <= MaxTime
        /\ \E pair \in Draws : \E t \in {step(St, pair)} : EngineBecomes(t)
        /\ fired' = fired \cup {handle}
        /\ ticks' = IF isRunning THEN ticks + 1 ELSE ticks
        /\ UNCHANGED <<simulationInterval, timers, sockets, budget>>

(* The end of a cadence interval. *)
Elapse ==
    /\ timers # {} \/ ticks # 0
    /\ fired = timers
    /\ fired' = {}
    /\ ticks' = 0
    /\ EngineBecomes(St)
    /\ UNCHANGED <<simulationInterval, timers, sockets, budget>>

NextServer ==
    \/ Connect \/ StartSimulation \/ StopSimulation \/ ResetSimulation
    \/ Disconnect \/ Fire \/ Elapse

SpecServer == InitServer /\ [][NextServer]_vars

(* C26: after any sequence of start-simulation, stop-simulation,            *)
(* reset-simulation and disconnect events, from one or several clients, at  *)
(* most one interval is alive, the engine executes at most one tick in a    *)
(* cadence interval, and no interval is alive while the engine is stopped.  *)
C26_SingleTimer ==
    /\ Cardinality(timers) <= 1
    /\ ticks <= 1
    /\ ~isRunning => timers = {}

(* C27: at every tick boundary every elevator that is moving has a target  *)
(* floor, and every elevator without a target floor has direction idle and  *)
(* is not moving.                                                           *)
C27_FleetConsistent ==
    \A i \in Indices(elevators) :
        /\ elevators[i].isMoving => elevators[i].targetFloor # Undefined
        /\ elevators[i].targetFloor = Undefined
               => elevators[i].direction = "idle" /\ ~elevators[i].isMoving

(* C27's case: after a tick, one elevator is moving to its target and      *)
(* another, away from the floor it was created at (or with its doors open), *)
(* has stopped and has no target.                                           *)
C27_MovingAndStopped ==
    /\ currentTime > 0
    /\ \E i \in Indices(elevators) :
           elevators[i].isMoving /\ elevators[i].targetFloor # Undefined
    /\ \E i \in Indices(elevators) :
           /\ elevators[i].targetFloor = Undefined
           /\ elevators[i].doorsOpen \/ elevators[i].currentFloor # i

(* C28: in a building of at least two floors, every request the generator  *)
(* can produce in normal, morning-rush or evening-rush mode has its origin  *)
(* and destination in 1..totalFloors and different from each other, and the *)
(* generator has an outcome (its redraw loop ends).                         *)
C28_GeneratedInRange ==
    totalFloors >= 2 =>
        /\ generateRandomRequest(St) # {}
        /\ \A pair \in generateRandomRequest(St) :
               /\ pair[1] \in 1..totalFloors
               /\ pair[2] \in 1..totalFloors
               /\ pair[1] # pair[2]

(* C28's case: in rush-hour mode, the tick has just generated a request     *)
(* that is still in the pool.                                               *)
C28_GeneratedInRush ==
    /\ isRushHour /\ rushHourType \in {"morning", "evening"}
    /\ isRunning /\ currentTime > 0 /\ lastRequestTime = currentTime
    /\ \E k \in Indices(pendingRequests) :
           /\ pendingRequests[k].id = totalRequests
           /\ pendingRequests[k].timestamp = currentTime

(* C29: with a unit clock step, a tick of the running engine adds as many  *)
(* requests as the configured rate says, r requests for a rate r >= 1 (two  *)
(* in rush hour, where the rate is 2, for one at the normal rate 1).        *)
C29_RateRequestsPerTick ==
    [][(Step /\ isRunning /\ speed = 1 /\ requestFrequency >= 1)
           => totalRequests' = totalRequests + requestFrequency]_vars

(***************************************************************************)
(* getPriority over time: two requests, created at any two times up to     *)
(* MaxAge in either direction, wait in the pool of an engine that is not    *)
(* serving them while the clock advances by unit steps to 2 * MaxAge and    *)
(* the pool is sorted by priority at every step.                            *)
(***************************************************************************)
Trips == {<<1, 3>>, <<3, 1>>}

Waiting(first, second) ==
    [SimulationEngine(3, 1) EXCEPT
        !.pendingRequests = <<RequestClass(1, first[1][1], first[1][2], first[2]),
                              RequestClass(2, second[1][1], second[1][2], second[2])>>,
        !.totalRequests = 2,
        !.currentTime = Max(first[2], second[2])]

InitPriority ==
    /\ \E first \in Trips \X (0..MaxAge), second \in Trips \X (0..MaxAge) :
           Holds(Waiting(first, second))
    /\ budget = 0
    /\ NoTimer

Age ==
    /\ currentTime < 2 * MaxAge
    /\ Becomes(sortRequestsByPriority([St EXCEPT !.currentTime = @ + 1]))
    /\ UNCHANGED budget

SpecPriority == InitPriority /\ [][Age]_vars

(* A request that has waited more than 20 has a strictly higher priority   *)
(* than one that has waited at most 10.                                     *)
Escalates ==
    \A j \in Indices(pendingRequests), k \in Indices(pendingRequests) :
        (currentTime - pendingRequests[j].timestamp > 20
            /\ currentTime - pendingRequests[k].timestamp <= 10)
        => getPriority(pendingRequests[j], currentTime)
               > getPriority(pendingRequests[k], currentTime)

(* The priority of a request does not decrease when the clock advances. *)
NeverDecreases ==
    \A k \in Indices(pendingRequests) :
        getPriority(pendingRequests[k], currentTime')
            >= getPriority(pendingRequests[k], currentTime)

(* C30: for a fixed request, priority(now) never decreases as now grows,    *)
(* and a request that has waited more than 20 time units has a strictly     *)
(* higher priority than any request that has waited at most 10, whatever    *)
(* their directions.                                                        *)
C30_PriorityEscalates == [](Escalates) /\ [][NeverDecreases]_vars

(* C30's case: a request going down has waited more than 20 and is sorted   *)
(* before a request going up that has waited more than 3 and at most 10.    *)
C30_OldBeforeYoung ==
    /\ Len(pendingRequests) = 2
    /\ currentTime - pendingRequests[1].timestamp > 20
    /\ ~isGoingUp(pendingRequests[1])
    /\ currentTime - pendingRequests[2].timestamp \in 4..10
    /\ isGoingUp(pendingRequests[2])
    /\ pendingRequests[1].id = 2

(* The requests of the pool that processPassengers handles for elevator i: *)
(* those assigned to it by id.                                              *)
Handled(i) ==
    {k \in Indices(pendingRequests) :
        pendingRequests[k].isAssigned
        /\ pendingRequests[k].assignedElevatorId = elevators[i].id}

(* The pickup statement picks a request up only at its origin floor, into   *)
(* an elevator below capacity, whose passengerCount it raises by 1; the     *)
(* drop-off statement delivers only at the destination floor and lowers the *)
(* passengerCount by 1.                                                     *)
PickupAndDropOffGuarded ==
    \A i \in Indices(elevators) : \A k \in Handled(i) :
        /\ \E t \in {pickup(St, i, k)} :
               t.pendingRequests[k].isPickupComplete # pendingRequests[k].isPickupComplete
               => /\ elevators[i].currentFloor = pendingRequests[k].fromFloor
                  /\ elevators[i].passengerCount < elevators[i].maxCapacity
                  /\ t.elevators[i].passengerCount = elevators[i].passengerCount + 1
                  /\ t.pendingRequests[k].isPickupComplete
        /\ \E t \in {dropOff(St, i, k)} :
               t.pendingRequests[k].isDeliveryComplete # pendingRequests[k].isDeliveryComplete
               => /\ elevators[i].currentFloor = pendingRequests[k].toFloor
                  /\ pendingRequests[k].isPickupComplete
                  /\ t.elevators[i].passengerCount = elevators[i].passengerCount - 1
                  /\ t.pendingRequests[k].isDeliveryComplete

(* After a step, the elevator recorded for a request the step picked up is  *)
(* stopped at the request's origin floor, the elevator recorded for a       *)
(* request it delivered is stopped at the destination floor, and every      *)
(* elevator's passengerCount has changed by its pickups less its            *)
(* deliveries.                                                              *)
ServedWhereStopped ==
    /\ \A id \in tickLog'.pickups \cap Ids(pendingRequests') :
           LET request == Find(pendingRequests', id)
           IN  \E i \in Indices(elevators') :
                   /\ elevators'[i].id = request.assignedElevatorId
                   /\ elevators'[i].currentFloor = request.fromFloor
                   /\ ~elevators'[i].isMoving
                   /\ elevators'[i].passengerCount \in 1..elevators'[i].maxCapacity
    /\ \A id \in tickLog'.deliveries \cap Ids(pendingRequests) :
           LET request == Find(pendingRequests, id)
           IN  \E i \in Indices(elevators') :
                   /\ request.isPickupComplete
                          => elevators'[i].id = request.assignedElevatorId
                   /\ elevators'[i].currentFloor = request.toFloor
                   /\ ~elevators'[i].isMoving
    /\ (tickLog'.pickups \cup tickLog'.deliveries # {} /\ Len(elevators) = 1)
           => elevators'[1].passengerCount
                  = elevators[1].passengerCount + Cardinality(tickLog'.pickups)
                        - Cardinality(tickLog'.deliveries)

(* C31: a request is picked up only in a tick in which the elevator         *)
(* recorded for it is stopped at its origin floor with passengerCount below *)
(* maxCapacity, and delivered only in a tick in which that elevator is      *)
(* stopped at its destination floor; the pickup raises the elevator's       *)
(* passengerCount by exactly 1 and the delivery lowers it by exactly 1.      *)
C31_ServedAtFloor == [](PickupAndDropOffGuarded) /\ [][ServedWhereStopped]_vars

(* C31's case: the tick has just picked one request up and delivered        *)
(* another.                                                                 *)
C31_PickupAndDelivery ==
    /\ tickLog.pickups # {} /\ tickLog.deliveries # {}
    /\ tickLog.pickups \cap tickLog.deliveries = {}

(* The requests of the pool riding in elevator i: assigned to it, picked   *)
(* up and not delivered.                                                    *)
Riding(i) ==
    {k \in Indices(pendingRequests) :
        /\ pendingRequests[k].assignedElevatorId = elevators[i].id
        /\ pendingRequests[k].isPickupComplete
        /\ ~pendingRequests[k].isDeliveryComplete}

(* C32: at every tick boundary each elevator's passengerCount is the number *)
(* of requests of the pool assigned to it that are picked up and not        *)
(* delivered.                                                               *)
C32_CountIsRiders ==
    \A i \in Indices(elevators) :
        elevators[i].passengerCount = Cardinality(Riding(i))

(* C32's case: after a tick that delivered a request, an elevator carries  *)
(* passengers and has further requests assigned that it has not picked up.  *)
C32_RidersAmongAssigned ==
    /\ tickLog.deliveries # {}
    /\ \E i \in Indices(elevators) :
           /\ elevators[i].passengerCount >= 1
           /\ Len(elevators[i].assignedRequests) > elevators[i].passengerCount

(* The greatest difference of two elevators' numbers of assigned requests,  *)
(* and the number of assigned request ids of a fleet.                       *)
Spread(fleet) ==
    LET loads == {Len(fleet[i].assignedRequests) : i \in Indices(fleet)}
    IN  IF loads = {} THEN 0
        ELSE CHOOSE d \in 0..Len(pendingRequests) :
                 /\ \E m \in loads, n \in loads : m - n = d
                 /\ \A m \in loads, n \in loads : m - n <= d

RECURSIVE AssignedIds(_, _)
AssignedIds(fleet, n) ==
    IF n = 0 THEN 0 ELSE Len(fleet[n].assignedRequests) + AssignedIds(fleet, n - 1)

(* C33: one rebalancing step keeps the requests of the pool and the total   *)
(* number of assigned request ids of the fleet, changes the assigned lists  *)
(* of the two elevators involved only (every elevator's floor, target,      *)
(* direction and passengerCount stay), and does not increase the spread of  *)
(* the elevators' numbers of assigned requests.                             *)
C33_RebalancingFrame ==
    \E t \in {emergencyRebalancing(St)} :
        /\ Len(t.pendingRequests) = Len(pendingRequests)
        /\ \A k \in Indices(pendingRequests) :
               [t.pendingRequests[k] EXCEPT
                   !.assignedElevatorId = pendingRequests[k].assignedElevatorId]
                   = pendingRequests[k]
        /\ Len(t.elevators) = Len(elevators)
        /\ AssignedIds(t.elevators, Len(elevators)) = AssignedIds(elevators, Len(elevators))
        /\ Cardinality({i \in Indices(elevators) :
                            t.elevators[i].assignedRequests # elevators[i].assignedRequests})
               \in {0, 2}
        /\ \A i \in Indices(elevators) :
               [t.elevators[i] EXCEPT !.assignedRequests = elevators[i].assignedRequests]
                   = elevators[i]
        /\ Spread(t.elevators) <= Spread(elevators)

(* C33's case: the tick has just rebalanced a fleet of three elevators: a   *)
(* request has moved to the third and the second keeps its own.             *)
C33_RebalancedAmongThree ==
    /\ Len(elevators) = 3
    /\ \E id \in tickLog.reassigned :
           id \in Ids(pendingRequests)
           /\ Find(pendingRequests, id).assignedElevatorId = elevators[3].id
    /\ elevators[2].assignedRequests # <<>>

(* The ids of the requests of a pool that are not assigned. *)
Unassigned(pool) == {pool[k].id : k \in {j \in Indices(pool) : ~pool[j].isAssigned}}

(* Some elevator has room for a passenger. *)
SomeRoom == \E i \in Indices(elevators) :
                elevators[i].passengerCount < elevators[i].maxCapacity

(* processRequests either assigns every unassigned request of the pool,     *)
(* when some elevator has room, or none of them.                            *)
AssignsAllOrNone ==
    elevators # <<>>
    => \E t \in {processRequests(St)} :
           /\ Ids(t.pendingRequests) = Ids(pendingRequests)
           /\ IF SomeRoom
              THEN Unassigned(t.pendingRequests) = {}
              ELSE Unassigned(t.pendingRequests) = Unassigned(pendingRequests)

(* After a tick of the running engine the pool has no unassigned request,   *)
(* when some elevator had room, and otherwise every request that was        *)
(* unassigned or has arrived in the tick is unassigned and logged           *)
(* "No suitable elevator found".                                            *)
TickAssignsAllOrNone ==
    (Step /\ isRunning /\ elevators # <<>>)
    => IF SomeRoom
       THEN Unassigned(pendingRequests') = {} /\ tickLog'.unassignable = {}
       ELSE /\ Unassigned(pendingRequests) \subseteq Unassigned(pendingRequests')
            /\ Unassigned(pendingRequests') = tickLog'.unassignable
            /\ \A id \in Ids(pendingRequests') \ Ids(pendingRequests) :
                   id \in Unassigned(pendingRequests')

(* C34: with a non-empty fleet the assignment phase of a tick is            *)
(* all-or-nothing: every unassigned request of the pool becomes assigned    *)
(* in the tick when some elevator has passengerCount < maxCapacity, and     *)
(* none does otherwise, whatever the order of the scan.                     *)
C34_AllOrNothing == [](AssignsAllOrNone) /\ [][TickAssignsAllOrNone]_vars

(* C34's case: the tick has just left two requests of different priority    *)
(* unassigned, the only elevator being full.                                *)
C34_NoneAssigned ==
    /\ Cardinality(tickLog.unassignable) >= 2
    /\ Unassigned(pendingRequests) = tickLog.unassignable
    /\ \A i \in Indices(elevators) :
           elevators[i].passengerCount = elevators[i].maxCapacity

(* The engine with every request of the pool assigned to the first          *)
(* elevator, which has stopped: the state in which updateElevators calls    *)
(* updateElevatorTargetsForRequests after a stop.                           *)
StoppedWithAll ==
    LET AssignToFirst(t, k) == assignRequest(t, t.pendingRequests[k], 1)
    IN  The({[t EXCEPT !.elevators[1] = stop(@)] :
             t \in {ForEach(St, 1, Len(pendingRequests), AssignToFirst)}})

(* The requests of a pool that have waited longest. *)
Oldest(pool, now) ==
    {pool[k] : k \in {j \in Indices(pool) :
                         \A m \in Indices(pool) :
                             getWaitTime(pool[m], now) <= getWaitTime(pool[j], now)}}

(* The comparator puts a request before another exactly when it has waited  *)
(* longer, and the re-targeting sends the stopped elevator to the floor of  *)
(* one of its longest-waiting requests.                                     *)
OldestFirst ==
    /\ \A j \in Indices(pendingRequests), k \in Indices(pendingRequests) :
           engineBefore(St, pendingRequests[j], pendingRequests[k])
           <=> getWaitTime(pendingRequests[j], currentTime)
                   > getWaitTime(pendingRequests[k], currentTime)
    /\ \E s \in {StoppedWithAll} :
           \E t \in {updateElevatorTargetsForRequests(s, 1)} :
               t.elevators[1].targetFloor
                   \in {NextFloor(r) : r \in Oldest(s.pendingRequests, s.currentTime)}

(* C35: the re-targeting comparator (priority when two priorities differ   *)
(* by more than 50, otherwise the longer wait) always selects an assigned  *)
(* request of maximal wait time.                                            *)
C35_SelectsOldest == OldestFirst

(* C35's case: of two assigned requests the older has the lower priority    *)
(* (it goes down, the younger goes up) and a different floor, and the       *)
(* elevator is sent to the older one's floor.                               *)
C35_OlderOfLowerPriority ==
    /\ Len(pendingRequests) = 2
    /\ getWaitTime(pendingRequests[1], currentTime)
           > getWaitTime(pendingRequests[2], currentTime)
    /\ getPriority(pendingRequests[1], currentTime)
           < getPriority(pendingRequests[2], currentTime)
    /\ pendingRequests[1].fromFloor # pendingRequests[2].fromFloor
    /\ updateElevatorTargetsForRequests(StoppedWithAll, 1).elevators[1].targetFloor
           = pendingRequests[1].fromFloor

(***************************************************************************)
(* Settling.  SpecSettle takes timer ticks only, weakly fair, from the     *)
(* started scenarios of SpecLive and from two with a second elevator that  *)
(* predictive positioning sends towards a call the other elevator serves:  *)
(* in a building of 60 floors (elevators at floors 1 and 31, a call        *)
(* 50 -> 49) and in one of 100 floors (elevators at floors 1 and 51, a     *)
(* call 51 -> 50).  No request arrives (speed 0, budget 0).                *)
(***************************************************************************)
PositionedScenarios ==
    {Started(60, 2, Frozen \o <<<<"request", 50, 49>>>>),
     Started(100, 2, Frozen \o <<<<"request", 51, 50>>>>)}

SettleStates == LiveStates \cup {Run(scenario) : scenario \in PositionedScenarios}

InitSettle ==
    /\ \E s \in SettleStates : Holds(s)
    /\ budget = 0
    /\ NoTimer

SpecSettle == InitSettle /\ [][Step]_vars /\ WF_vars(Step)

(* Every elevator has no target, direction idle and isMoving = false. *)
Settled ==
    \A i \in Indices(elevators) :
        /\ elevators[i].targetFloor = Undefined
        /\ elevators[i].direction = "idle"
        /\ ~elevators[i].isMoving

(* A tick of a settled fleet with an empty pool keeps every elevator's      *)
(* floor, target and direction.                                             *)
StaysSettled ==
    (pendingRequests = <<>> /\ Settled /\ pendingRequests' = <<>>)
    => /\ Len(elevators') = Len(elevators)
       /\ \A i \in Indices(elevators) :
              /\ elevators'[i].currentFloor = elevators[i].currentFloor
              /\ elevators'[i].targetFloor = elevators[i].targetFloor
              /\ elevators'[i].direction = elevators[i].direction

(* C36: once the pool is empty and no request arrives any more, every       *)
(* elevator eventually has no target, direction idle and isMoving = false,  *)
(* and from then on no tick changes any elevator's floor, target or         *)
(* direction.                                                               *)
C36_FleetSettles ==
    /\ (pendingRequests = <<>>) ~> Settled
    /\ [][StaysSettled]_vars

(* step() called on an engine that is not running returns the engine as it  *)
(* was: clock, pool, fleet, counters and settings (nothing is logged).      *)
StepReturnsEarly ==
    ~isRunning => \A pair \in Draws : step(St, pair) = [St EXCEPT !.tickLog = EmptyLog]

(* A timer tick of an engine that is not running changes no field of it. *)
TickOfStoppedEngine ==
    (Step /\ ~isRunning)
    => UNCHANGED <<isRunning, currentTime, speed, totalFloors, totalElevators,
                   elevators, pendingRequests, requestFrequency, lastRequestTime,
                   totalRequests, completedRequests, completedRequestsWithTimes,
                   isRushHour, rushHourType, budget>>

(* C37: step() invoked while the engine is not running (before start,      *)
(* after stop, after reset) is a no-op: the clock, the pool, every          *)
(* elevator and all counters are unchanged.                                 *)
C37_StepWhileStoppedIsNoOp == [](StepReturnsEarly) /\ [][TickOfStoppedEngine]_vars

(* C37's case: an engine stopped in mid-run, with a request in the pool and *)
(* an elevator on its way: a tick would have work to do.                    *)
C37_StoppedMidRun ==
    /\ ~isRunning /\ currentTime > 0
    /\ pendingRequests # <<>>
    /\ \E i \in Indices(elevators) :
           /\ elevators[i].targetFloor # Undefined
           /\ elevators[i].targetFloor # elevators[i].currentFloor
    /\ step(St, <<0, 0>>) = St

(* The candidates of findBestElevator are all idle, empty and without       *)
(* assigned requests.                                                       *)
AllCandidatesFree ==
    /\ Roomy # {}
    /\ \A i \in Roomy :
           /\ isIdle(elevators[i])
           /\ elevators[i].passengerCount = 0
           /\ elevators[i].assignedRequests = <<>>

DoorsClosed == \A i \in Indices(elevators) : ~elevators[i].doorsOpen

(* In the coming tick an elevator that has reached its target has its doors *)
(* open while its passengers are processed and closed when updateElevators  *)
(* leaves it; every other elevator's doors stay closed.                     *)
OpenedAndClosedInStep ==
    \A i \in Indices(elevators) :
        \E s \in {Reaching(i)} :
            /\ \A t \in Retargeting(i) :
                   t.elevators[i].doorsOpen <=> hasReachedTarget(s.elevators[i])
            /\ ~updateElevator(s, i).elevators[i].doorsOpen

(* An elevator's floor changes with its doors closed. *)
MovesWithDoorsClosed ==
    \A i \in Indices(elevators) :
        (i \in Indices(elevators') /\ elevators'[i].currentFloor # elevators[i].currentFloor)
        => ~elevators[i].doorsOpen /\ ~elevators'[i].doorsOpen

(* C39: at every tick boundary every elevator has doorsOpen = false: doors  *)
(* are opened and closed within the same stop-processing step, so no        *)
(* elevator ever changes floor with its doors open.                         *)
C39_DoorsClosedBetweenTicks ==
    [](DoorsClosed /\ OpenedAndClosedInStep) /\ [][MovesWithDoorsClosed]_vars

(* C39's case: a tick has just stopped an elevator at a floor, picked a     *)
(* request up there and sent the elevator on, doors closed.                 *)
C39_ServedAndClosed ==
    /\ tickLog.pickups # {}
    /\ DoorsClosed
    /\ \E i \in Indices(elevators) :
           /\ elevators[i].passengerCount > 0
           /\ elevators[i].targetFloor # Undefined
           /\ elevators[i].targetFloor # elevators[i].currentFloor

====
